---- MODULE Spec2Model ----
(***************************************************************************)
(* State-machine model of chaturbate-recorder-rs: the per-room backoff     *)
(* state (RoomCheckState), the RoomMonitor::run control loop with its      *)
(* recording tasks and credential-death detection, and the record_stream   *)
(* polling loop with its SegmentTracker.                                   *)
(*                                                                         *)
(* Option<T> values are modelled as sequences: <<>> is None, <<x>> is      *)
(* Some(x).  An Instant held in next_check_at is modelled by the time      *)
(* that remains until it is reached (0 once it has been reached), because  *)
(* the code only ever compares it with Instant::now().                     *)
(***************************************************************************)
EXTENDS Integers, Sequences, FiniteSets, TLC

\* ------------------------------------------------------------------ bounds

\* Largest configured check interval (seconds) drawn in BackoffSpec.
MaxBase == 2
\* Cap of the consecutive_same_error counter in BackoffSpec.
MaxConsecutive == 8
\* Cap of consecutive_same_error in Spec and CycleSpec.
MonMaxConsecutive == 2
\* Longest room list drawn in CycleSpec.
MaxRooms == 5
\* Length of the window of past check results kept in BackoffSpec.
MaxHist == 3
\* RecSpec: largest segment sequence number and longest media playlist.
MaxSeq == 3
MaxSegments == 2
\* PathSpec: the last second of the clock and the largest file sequence number.
MaxNow == 2
MaxFileSeq == 2
\* TrackerSpec: the largest sequence number a call is made with.
MaxCallSeq == 7

\* ------------------------------------------------------- RoomCheckState

ErrorKinds == {"Offline", "Private", "ServerError", "Cloudflare", "Other"}

Outcomes == {"Ok"} \cup ErrorKinds

\* What check_room can return: error.rs has no ServerError variant and nothing
\* constructs one, so that arm of the match is never taken.
CheckOutcomes == Outcomes \ {"ServerError"}

RECURSIVE Pow2(_)
Pow2(n) == IF n = 0 THEN 1 ELSE 2 * Pow2(n - 1)

Max(S) == CHOOSE x \in S : \A y \in S : y <= x

Min(a, b) == IF a < b THEN a ELSE b

RoomCheckState_new ==
    [last_error_kind |-> "None", consecutive_same_error |-> 0, next_check_at |-> <<>>]

\* The return value of record_error: is this a new error kind (to be logged)?
record_error_is_new(cs, kind) == cs.last_error_kind # kind

\* Mutant: the first error of a kind is scheduled by the exponential formula too.
record_error_first_by_formula(cs, kind, base_interval) ==
    LET n == IF record_error_is_new(cs, kind) THEN 1
             ELSE cs.consecutive_same_error + 1
    IN  [last_error_kind |-> kind, consecutive_same_error |-> n,
         next_check_at |-> <<base_interval * Pow2(Min(n, 6))>>]

\* Mutant: the multiplier is not capped.
record_error_uncapped(cs, kind, base_interval) ==
    IF record_error_is_new(cs, kind)
    THEN [last_error_kind |-> kind, consecutive_same_error |-> 1,
          next_check_at |-> <<base_interval>>]
    ELSE [last_error_kind |-> kind,
          consecutive_same_error |-> cs.consecutive_same_error + 1,
          next_check_at |-> <<base_interval * Pow2(cs.consecutive_same_error + 1)>>]

\* Mutant: a change of error kind keeps counting.
record_error_no_reset(cs, kind, base_interval) ==
    [last_error_kind |-> kind,
     consecutive_same_error |-> cs.consecutive_same_error + 1,
     next_check_at |-> <<base_interval * Pow2(Min(cs.consecutive_same_error + 1, 6))>>]

\* The state record_error leaves behind.
record_error(cs, kind, base_interval) ==
    IF record_error_is_new(cs, kind)
    THEN [last_error_kind |-> kind, consecutive_same_error |-> 1,
          next_check_at |-> <<base_interval>>]
    ELSE [last_error_kind |-> kind,
          consecutive_same_error |-> cs.consecutive_same_error + 1,
          next_check_at |->
              <<base_interval * Pow2(Min(cs.consecutive_same_error + 1, 6))>>]

\* Mutant: a success keeps the last error kind.
record_success_keeps_kind(cs) ==
    [cs EXCEPT !.consecutive_same_error = 0, !.next_check_at = <<>>]

record_success(cs) == RoomCheckState_new

\* Mutant: a room with a next_check_at is skipped whatever the time.
should_skip_whatever_time(cs) == cs.next_check_at # <<>>

should_skip(cs) == cs.next_check_at # <<>> /\ 0 < cs.next_check_at[1]

\* Mutant: an error is recorded for a recording room as for any other.
CheckStateAfter_always_records(cs, outcome, is_rec, base_interval) ==
    IF outcome = "Ok" THEN record_success(cs)
    ELSE record_error(cs, outcome, base_interval)

\* The effect of one check result on the room's RoomCheckState (the match in
\* RoomMonitor::run): Ok resets it; Offline, Private, Cloudflare and
\* ServerError are recorded only for a room that is not recording; any other
\* error is recorded always.
CheckStateAfter(cs, outcome, is_rec, base_interval) ==
    IF outcome = "Ok" THEN record_success(cs)
    ELSE IF outcome = "Other" THEN record_error(cs, "Other", base_interval)
    ELSE IF ~is_rec THEN record_error(cs, outcome, base_interval)
    ELSE cs

\* The room's status after one check result.
StatusAfter(st, outcome, is_rec) ==
    IF is_rec THEN st
    ELSE IF outcome = "Ok" THEN "Recording"
    ELSE IF outcome = "Offline" THEN "Offline"
    ELSE IF outcome = "Private" THEN "Private"
    ELSE st

\* ---------------------------------------------------------------- state

VARIABLES
    \* RoomMonitor::run
    num_rooms,             \* self.rooms.len()
    cancel_token,          \* the root cancellation signal
    mpc,                   \* position of the monitor loop
    room_idx,              \* position of `for room in &self.rooms`
    check_result,          \* what check_room returned, until it is matched
    is_recording,          \* the local is_recording of the room being checked
    private_count, cloudflare_count, checked_count,
    active_recordings,     \* the keys of the active_recordings map
    rec_cancel,            \* per room: its recording's cancel_token is cancelled
    rec_task,              \* per room: state of the task behind its JoinHandle
    task_count,            \* per room: Recorder tasks spawned and not yet joined
    room_status, check_states,
    cookie_dead, cookie_dead_alerted, was_cookie_dead,
    last_hook,             \* the last message send_webhook was called with
    hooks_alternate,       \* no message so far repeated the one before it
    join_target,           \* the recording whose handle the shutdown awaits
    shutdown_active,       \* the recordings that were active when shutdown began
    \* one room's RoomCheckState under a sequence of check results
    bk_state, bk_base, bk_recording, bk_hist,
    \* record_stream
    rec_pc,                \* position of the recorder
    token_cancelled,       \* the recorder's cancel_token is cancelled
    tracker,               \* the SegmentTracker
    stats,                 \* the RecordingStats
    file_duration, file_size, file_sequence,
    max_duration_secs, max_filesize_bytes,
    playlist_len,          \* the number of segments of the fetched playlist
    seg_idx,               \* position of `for segment in &playlist.segments`
    segment,               \* the sequence number of the segment at that position
    attempt,               \* `attempt` of download_segment_with_retry
    result,                \* what record_stream returned
    exit_path,             \* how the loop was left
    written,               \* the sequence numbers written so far, in write order
    unflushed,             \* the open file was written to and not flushed since
    skipped,               \* the sequence numbers skipped after the last failed retry
    \* output files of concurrently running recorders
    room_list,             \* the validated room list, one recorder per entry
    filename_pattern,      \* config.filename_pattern
    now,                   \* Local::now(), in seconds
    \* a SegmentTracker under any calls
    trk,                   \* the tracker
    trk_call,              \* the last call: its sequence, last_sequence before it, its result
    open_file,             \* per recorder: idle, its open file's path and sequence, or returned
    \* main and run_direct_mode
    main_pc,               \* position of main
    monitor_flag,          \* args.monitor
    main_result,           \* `result` of main: what the mode returned
    exit_status,           \* the ExitCode main returned
    direct_task,           \* per room of run_direct_mode: state of its spawned task
    spawn_idx,             \* position of `for room in rooms`
    joined,                \* the tasks join_next has yielded
    successful, failed,    \* the tallies of run_direct_mode
    \* get_stream_info
    disc_pc,               \* position of get_stream_info
    http_response,         \* the response the last client.get received
    fetch_result,          \* what the last client.get returned
    target,                \* target_resolution and target_framerate
    variants,              \* the variants of the master playlist, in its order
    disc_result,           \* what get_stream_info returned
    \* download_segment_with_retry
    retry_pc,              \* position of download_segment_with_retry
    retry_attempt,         \* `attempt` of its loop
    last_error,            \* its last_error
    retry_result,          \* what it returned
    retry_log              \* its get_bytes calls with their results, and its sleeps

monVars == <<cancel_token, mpc, room_idx, check_result, is_recording,
             private_count, cloudflare_count, checked_count, active_recordings,
             rec_cancel, rec_task, task_count, room_status, check_states,
             cookie_dead, cookie_dead_alerted, was_cookie_dead, last_hook, hooks_alternate, join_target, shutdown_active>>

cfgVars == <<num_rooms>>

bkVars == <<bk_state, bk_base, bk_recording, bk_hist>>

recVars == <<rec_pc, token_cancelled, tracker, stats, file_duration, file_size,
             file_sequence, max_duration_secs, max_filesize_bytes, playlist_len,
             seg_idx, segment, attempt, result, written, unflushed, exit_path>>

\* What is only observed of a recording.
obsVars == <<skipped>>

pathVars == <<room_list, filename_pattern, now, open_file>>

trkVars == <<trk, trk_call>>

mainVars == <<main_pc, monitor_flag, main_result, exit_status, direct_task,
              spawn_idx, joined, successful, failed>>

discVars == <<disc_pc, http_response, fetch_result, target, variants, disc_result>>

retryVars == <<retry_pc, retry_attempt, last_error, retry_result, retry_log>>

vars == <<cfgVars, monVars, bkVars, recVars, obsVars, pathVars, trkVars, mainVars,
          discVars, retryVars>>

\* ------------------------------------------------------- RoomMonitor

\* self.rooms, in list order.
Rooms == 1 .. num_rooms

\* The room-list lengths Spec explores.
RoomCounts == {1, 2}

\* Time is measured in units of the configured check interval.
check_interval == 1

Finished == {"ok", "err", "panic"}

\* dt units of time pass: every pending next_check_at comes dt closer.
Elapse(states, dt) ==
    [r \in DOMAIN states |->
        IF states[r].next_check_at = <<>> THEN states[r]
        ELSE [states[r] EXCEPT
                 !.next_check_at = <<IF @[1] > dt THEN @[1] - dt ELSE 0>>]]

MonitorInit ==
    /\ cancel_token = FALSE
    /\ mpc = "loop_top"
    /\ room_idx = 0
    /\ check_result = "none"
    /\ is_recording = FALSE
    /\ private_count = 0 /\ cloudflare_count = 0 /\ checked_count = 0
    /\ active_recordings = {}
    /\ rec_cancel = [r \in Rooms |-> FALSE]
    /\ rec_task = [r \in Rooms |-> "none"]
    /\ task_count = [r \in Rooms |-> 0]
    /\ room_status = [r \in Rooms |-> "Unknown"]
    /\ check_states = [r \in Rooms |-> RoomCheckState_new]
    /\ cookie_dead = FALSE /\ cookie_dead_alerted = FALSE /\ was_cookie_dead = FALSE
    /\ last_hook = "none" /\ hooks_alternate = TRUE
    /\ join_target = 0
    /\ shutdown_active = {}

\* The operator interrupt (Ctrl+C) cancels the root token.
Cancel ==
    /\ ~cancel_token /\ mpc # "returned"
    /\ cancel_token' = TRUE
    /\ UNCHANGED <<mpc, room_idx, check_result, is_recording, private_count,
                   cloudflare_count, checked_count, active_recordings, rec_cancel,
                   rec_task, task_count, room_status, check_states, cookie_dead,
                   cookie_dead_alerted, was_cookie_dead, last_hook,
                   hooks_alternate, join_target, shutdown_active>>

\* Top of the loop, not cancelled: a new cycle starts with zeroed counters.
LoopTop ==
    /\ mpc = "loop_top" /\ ~cancel_token
    /\ private_count' = 0 /\ cloudflare_count' = 0 /\ checked_count' = 0
    /\ was_cookie_dead' = FALSE
    /\ room_idx' = 1
    /\ mpc' = "check_rooms"
    /\ UNCHANGED <<cancel_token, check_result, is_recording, active_recordings,
                   rec_cancel, rec_task, task_count, room_status, check_states,
                   cookie_dead, cookie_dead_alerted, last_hook, hooks_alternate,
                   join_target, shutdown_active>>

\* Mutant: shutdown does not signal the recordings' tokens.
ShutdownTokens_none(active) == rec_cancel

\* The tokens after `recording.cancel_token.cancel()` for every active recording.
ShutdownTokens(active) == [r \in Rooms |-> rec_cancel[r] \/ r \in active]

\* Top of the loop, cancelled: signal every active recording.
ShutdownBegin ==
    /\ mpc = "loop_top" /\ cancel_token
    /\ rec_cancel' = ShutdownTokens(active_recordings)
    /\ shutdown_active' = active_recordings
    /\ mpc' = "drain"
    /\ UNCHANGED <<cancel_token, room_idx, check_result, is_recording, private_count,
                   cloudflare_count, checked_count, active_recordings, rec_task,
                   task_count, room_status, check_states, cookie_dead,
                   cookie_dead_alerted, was_cookie_dead, last_hook,
                   hooks_alternate, join_target>>

\* active_recordings.drain() yields its next entry, in the map's own order.
DrainNext ==
    /\ mpc = "drain" /\ join_target = 0
    /\ \E r \in active_recordings :
          /\ join_target' = r
          /\ active_recordings' = active_recordings \ {r}
    /\ UNCHANGED <<cancel_token, mpc, room_idx, check_result, is_recording,
                   private_count, cloudflare_count, checked_count, rec_cancel,
                   rec_task, task_count, room_status, check_states, cookie_dead,
                   cookie_dead_alerted, was_cookie_dead, last_hook,
                   hooks_alternate, shutdown_active>>

\* `recording.handle.await` completes once that task has finished.
DrainJoin ==
    /\ mpc = "drain" /\ join_target # 0
    /\ rec_task[join_target] \in Finished
    /\ rec_task' = [rec_task EXCEPT ![join_target] = "none"]
    /\ task_count' = [task_count EXCEPT ![join_target] = @ - 1]
    /\ join_target' = 0
    /\ UNCHANGED <<cancel_token, mpc, room_idx, check_result, is_recording,
                   private_count, cloudflare_count, checked_count, active_recordings,
                   rec_cancel, room_status, check_states, cookie_dead,
                   cookie_dead_alerted, was_cookie_dead, last_hook,
                   hooks_alternate, shutdown_active>>

\* The drain is exhausted: break, and run returns Ok(()).
ShutdownReturn ==
    /\ mpc = "drain" /\ join_target = 0 /\ active_recordings = {}
    /\ mpc' = "returned"
    /\ UNCHANGED <<cancel_token, room_idx, check_result, is_recording, private_count,
                   cloudflare_count, checked_count, active_recordings, rec_cancel,
                   rec_task, task_count, room_status, check_states, cookie_dead,
                   cookie_dead_alerted, was_cookie_dead, last_hook,
                   hooks_alternate, join_target, shutdown_active>>

\* Mutant: a successful check spawns a recording whether or not one is active.
ShouldSpawn_always(outcome, is_rec) == outcome = "Ok"

\* The match arm `Ok(stream_info) if !is_recording`.
ShouldSpawn(outcome, is_rec) == outcome = "Ok" /\ ~is_rec

\* One room of `for room in &self.rooms`: skipped while in backoff (unless the
\* cookie is dead), else counted and checked.
CheckRoom ==
    /\ mpc = "check_rooms" /\ room_idx \in Rooms
    /\ IF ~cookie_dead /\ should_skip(check_states[room_idx])
       THEN /\ room_idx' = room_idx + 1
            /\ UNCHANGED <<mpc, check_result, is_recording, checked_count,
                           check_states>>
       ELSE /\ checked_count' = checked_count + 1
            /\ is_recording' = (room_idx \in active_recordings)
            /\ \E outcome \in CheckOutcomes :
                /\ CheckStateAfter(check_states[room_idx], outcome,
                                   room_idx \in active_recordings,
                                   check_interval).consecutive_same_error
                       <= MonMaxConsecutive
                /\ check_result' = outcome
            /\ mpc' = "dispatch"
            /\ UNCHANGED <<room_idx, check_states>>
    /\ UNCHANGED <<cancel_token, private_count, cloudflare_count, active_recordings,
                   rec_cancel, rec_task, task_count, room_status, cookie_dead,
                   cookie_dead_alerted, was_cookie_dead, last_hook,
                   hooks_alternate, join_target, shutdown_active>>

\* The match on check_room's result.
Dispatch ==
    /\ mpc = "dispatch"
    /\ LET r == room_idx
           spawn == ShouldSpawn(check_result, is_recording)
       IN  /\ check_states' = [check_states EXCEPT
                  ![r] = CheckStateAfter(@, check_result, is_recording, check_interval)]
           /\ room_status' = [room_status EXCEPT
                  ![r] = StatusAfter(@, check_result, is_recording)]
           /\ private_count' = private_count + (IF check_result = "Private" THEN 1 ELSE 0)
           /\ cloudflare_count' =
                  cloudflare_count + (IF check_result = "Cloudflare" THEN 1 ELSE 0)
           /\ active_recordings' = IF spawn THEN active_recordings \cup {r}
                                   ELSE active_recordings
           /\ rec_task' = IF spawn THEN [rec_task EXCEPT ![r] = "running"] ELSE rec_task
           /\ rec_cancel' = IF spawn THEN [rec_cancel EXCEPT ![r] = FALSE] ELSE rec_cancel
           /\ task_count' = IF spawn THEN [task_count EXCEPT ![r] = @ + 1] ELSE task_count
    /\ check_result' = "none"
    /\ is_recording' = FALSE
    /\ room_idx' = room_idx + 1
    /\ mpc' = "check_rooms"
    /\ UNCHANGED <<cancel_token, checked_count, cookie_dead, cookie_dead_alerted,
                   was_cookie_dead, last_hook, hooks_alternate, join_target,
                   shutdown_active>>

\* Mutant: strictly more than half of the checked rooms must fail.
CookieDeathCondition_strict(priv, cf, checked) ==
    checked > 0 /\ priv + cf > 0 /\ (priv + cf) * 2 > checked

\* Mutant: Cloudflare blocks are not counted.
CookieDeathCondition_private_only(priv, cf, checked) ==
    checked > 0 /\ priv > 0 /\ priv * 2 >= checked

\* `checked_count > 0 && auth_fail_count > 0 && auth_fail_count * 2 >= checked_count`
CookieDeathCondition(priv, cf, checked) ==
    checked > 0 /\ priv + cf > 0 /\ (priv + cf) * 2 >= checked

\* Mutant: the alert is sent in every cycle that meets the condition.
AlertDue_always(dead, alerted) == TRUE

\* `if !cookie_dead_alerted`, after entering has cleared the flag.
AlertDue(dead, alerted) == ~dead \/ ~alerted

\* Mutant: recovery needs no cycle free of auth failures.
RecoveryCondition_any(dead, priv, cf, checked) == dead /\ checked > 0

\* `else if cookie_dead && auth_fail_count == 0 && checked_count > 0`
RecoveryCondition(dead, priv, cf, checked) == dead /\ priv + cf = 0 /\ checked > 0

\* Mutant: recovery leaves the rooms' backoff as it is.
RecoveredStates_kept(states) == states

\* `for state in check_states.values_mut() { state.record_success(); }`
RecoveredStates(states) == [r \in DOMAIN states |-> record_success(states[r])]

\* A call of send_webhook(msg).  last_hook keeps the message; hooks_alternate
\* turns FALSE for good when a message repeats the one sent before it, or when
\* the first message is a recovery.
SendWebhook(msg) ==
    IF msg # "none"
    THEN /\ last_hook' = msg
         /\ hooks_alternate' =
                (hooks_alternate /\ msg # last_hook
                                 /\ (last_hook = "none" => msg = "alert"))
    ELSE UNCHANGED <<last_hook, hooks_alternate>>

\* Mutant: entering credential death marks every room, recording or not.
CookieDeadStatus_all(status, active) == [r \in DOMAIN status |-> "CookieDead"]

\* `for room in &self.rooms { if !active_recordings.contains_key(room) {
\* self.set_status(room, RoomStatus::CookieDead) } }`
CookieDeadStatus(status, active) ==
    [r \in DOMAIN status |-> IF r \in active THEN status[r] ELSE "CookieDead"]

\* Global cookie death detection, after the last room of the cycle.
Detect ==
    /\ mpc = "check_rooms" /\ room_idx = num_rooms + 1
    /\ was_cookie_dead' = cookie_dead
    /\ IF CookieDeathCondition(private_count, cloudflare_count, checked_count)
       THEN /\ cookie_dead' = TRUE
            /\ cookie_dead_alerted' = TRUE
            /\ room_status' =
                   IF ~cookie_dead
                   THEN CookieDeadStatus(room_status, active_recordings)
                   ELSE room_status
            /\ SendWebhook(IF AlertDue(cookie_dead, cookie_dead_alerted)
                           THEN "alert" ELSE "none")
            /\ UNCHANGED check_states
       ELSE IF RecoveryCondition(cookie_dead, private_count, cloudflare_count,
                                 checked_count)
       THEN /\ cookie_dead' = FALSE
            /\ cookie_dead_alerted' = FALSE
            /\ SendWebhook("recovery")
            /\ check_states' = RecoveredStates(check_states)
            /\ UNCHANGED room_status
       ELSE UNCHANGED <<cookie_dead, cookie_dead_alerted, room_status, check_states,
                        last_hook, hooks_alternate>>
    /\ mpc' = "cleanup"
    /\ UNCHANGED <<cancel_token, room_idx, check_result, is_recording, private_count,
                   cloudflare_count, checked_count, active_recordings, rec_cancel,
                   rec_task, task_count, join_target, shutdown_active>>

\* Mutant: the sweep takes no recording.
SweptRooms_none(active, tasks) == {}

\* Mutant: the sweep takes every active recording, finished or not.
SweptRooms_all(active, tasks) == active

\* The rooms whose `recording.handle.is_finished()`.
SweptRooms(active, tasks) == {r \in active : tasks[r] \in Finished}

\* Clean up finished recordings: join each, set its room back to Unknown.
Cleanup ==
    /\ mpc = "cleanup"
    /\ LET finished == SweptRooms(active_recordings, rec_task)
       IN  /\ active_recordings' = active_recordings \ finished
           /\ rec_task' = [r \in Rooms |-> IF r \in finished THEN "none" ELSE rec_task[r]]
           /\ task_count' = [r \in Rooms |-> IF r \in finished THEN task_count[r] - 1
                                             ELSE task_count[r]]
           /\ room_status' = [r \in Rooms |-> IF r \in finished THEN "Unknown"
                                              ELSE room_status[r]]
    /\ mpc' = "sleep"
    /\ UNCHANGED <<cancel_token, room_idx, check_result, is_recording, private_count,
                   cloudflare_count, checked_count, rec_cancel, check_states,
                   cookie_dead, cookie_dead_alerted, was_cookie_dead, last_hook, hooks_alternate, join_target, shutdown_active>>

\* select! { sleep(check_interval), cancel_token.cancelled() }.  Since the
\* previous wake-up the sleep has taken check_interval and the cycle's fetches
\* some more time, here nothing or another check_interval; a cancelled token
\* ends the sleep at once.
Sleep ==
    /\ mpc = "sleep"
    /\ \E fetches \in {0, check_interval} :
          check_states' = Elapse(check_states,
                                 IF cancel_token THEN 0 ELSE check_interval + fetches)
    /\ mpc' = "loop_top"
    /\ UNCHANGED <<cancel_token, room_idx, check_result, is_recording, private_count,
                   cloudflare_count, checked_count, active_recordings, rec_cancel,
                   rec_task, task_count, room_status, cookie_dead,
                   cookie_dead_alerted, was_cookie_dead, last_hook,
                   hooks_alternate, join_target, shutdown_active>>

\* A spawned record_stream task returns (stream end, cancellation, filesystem
\* error) or panics.
RecorderEnds(r) ==
    /\ rec_task[r] = "running"
    /\ \E res \in Finished : rec_task' = [rec_task EXCEPT ![r] = res]
    /\ UNCHANGED <<cancel_token, mpc, room_idx, check_result, is_recording,
                   private_count, cloudflare_count, checked_count, active_recordings,
                   rec_cancel, task_count, room_status, check_states, cookie_dead,
                   cookie_dead_alerted, was_cookie_dead, last_hook,
                   hooks_alternate, join_target, shutdown_active>>

\* What the monitor's actions leave alone.
notMon == <<cfgVars, bkVars, recVars, obsVars, pathVars, trkVars, mainVars, discVars, retryVars>>

\* ------------------------------------------------ generate_output_path

\* Strings are sequences of characters.  A filename pattern is a sequence of
\* characters and of the template variables "{{.Username}}" and "{{.Second}}".
RoomChars == {"a", "b", "_", "1"}

\* validate_room_name: not empty, only letters, digits and underscores, at
\* most 50 characters.
validate_room_name(room) ==
    /\ room # <<>>
    /\ \A i \in 1 .. Len(room) : room[i] \in RoomChars
    /\ Len(room) <= 50

\* The room names of the model that pass validation.
ValidRooms ==
    {room \in {<<"a">>, <<"b">>, <<"a", "_", "1">>} : validate_room_name(room)}

\* The filename patterns of the model: the room name alone, the room name and
\* the time, the time alone.
Patterns ==
    {<<"{{.Username}}">>, <<"{{.Username}}", "_", "{{.Second}}">>, <<"{{.Second}}">>}

DigitChars == <<"0", "1", "2", "3", "4", "5", "6", "7", "8", "9">>

\* format!("{}", n) of an unsigned number.
RECURSIVE Decimal(_)
Decimal(n) ==
    IF n < 10 THEN <<DigitChars[n + 1]>>
    ELSE Decimal(n \div 10) \o <<DigitChars[(n % 10) + 1]>>

\* now.format("%S"): two digits.
FormatSecond(t) == <<DigitChars[((t \div 10) % 10) + 1], DigitChars[(t % 10) + 1]>>

\* pattern.replace(..): every template variable replaced by its text.
RECURSIVE ReplaceAll(_, _, _)
ReplaceAll(pattern, room, t) ==
    IF pattern = <<>> THEN <<>>
    ELSE (IF Head(pattern) = "{{.Username}}" THEN room
          ELSE IF Head(pattern) = "{{.Second}}" THEN FormatSecond(t)
          ELSE <<Head(pattern)>>) \o ReplaceAll(Tail(pattern), room, t)

\* Mutant: the sequence suffix is added to the first file as well.
generate_output_path_always_suffix(pattern, room, sequence, t) ==
    ReplaceAll(pattern, room, t) \o <<"_">> \o Decimal(sequence) \o <<".", "t", "s">>

\* The path below output_dir: the replaced pattern, "_<sequence>" when the
\* sequence is above 0, and ".ts".
generate_output_path(pattern, room, sequence, t) ==
    ReplaceAll(pattern, room, t)
        \o (IF sequence > 0 THEN <<"_">> \o Decimal(sequence) ELSE <<>>)
        \o <<".", "t", "s">>

NoFile == [status |-> "idle"]

\* No recorder runs (the state of the other specifications).
PathIdle ==
    /\ room_list = <<>>
    /\ filename_pattern = <<>>
    /\ now = 0
    /\ open_file = <<>>

\* Two recorders are about to start, for any two validated room names.
PathInit ==
    /\ room_list \in [1 .. 2 -> ValidRooms]
    /\ filename_pattern \in Patterns
    /\ now = 0
    /\ open_file = [i \in 1 .. 2 |-> NoFile]

\* A second passes.
Tick ==
    /\ now < MaxNow
    /\ now' = now + 1
    /\ UNCHANGED <<room_list, filename_pattern, open_file>>

\* Recorder i opens its first file: create_output_file(room, config, 0).
OpenFirst(i) ==
    /\ open_file[i].status = "idle"
    /\ open_file' = [open_file EXCEPT ![i] =
           [status |-> "open", sequence |-> 0,
            path |-> generate_output_path(filename_pattern, room_list[i], 0, now)]]
    /\ UNCHANGED <<room_list, filename_pattern, now>>

\* Recorder i splits: the next file is opened with file_sequence + 1.
OpenNext(i) ==
    /\ open_file[i].status = "open" /\ open_file[i].sequence < MaxFileSeq
    /\ open_file' = [open_file EXCEPT ![i] =
           [status |-> "open", sequence |-> open_file[i].sequence + 1,
            path |-> generate_output_path(filename_pattern, room_list[i],
                                          open_file[i].sequence + 1, now)]]
    /\ UNCHANGED <<room_list, filename_pattern, now>>

\* Recorder i returns and its file is closed.
CloseFile(i) ==
    /\ open_file[i].status = "open"
    /\ open_file' = [open_file EXCEPT ![i] = [status |-> "returned"]]
    /\ UNCHANGED <<room_list, filename_pattern, now>>

\* ---------------------------------------------------------------- main

EXIT_SUCCESS == 0
EXIT_CONFIG_ERROR == 1
EXIT_NETWORK_ERROR == 2
EXIT_RECORDING_ERROR == 3
EXIT_INTERRUPTED == 130

\* Error::exit_code, on the name of the error's variant.
exit_code(e) ==
    IF e \in {"Config", "InvalidRoomName", "NoRoomsSpecified"} THEN EXIT_CONFIG_ERROR
    ELSE IF e \in {"Network", "CloudflareBlocked", "AgeVerification"}
    THEN EXIT_NETWORK_ERROR
    ELSE IF e = "Interrupted" THEN EXIT_INTERRUPTED
    ELSE EXIT_RECORDING_ERROR

\* The room lists args.get_rooms can return in the model: none, one or two
\* valid names, a name with a character that is not allowed, an empty name,
\* and names of 50 and of 51 characters.
RoomLists ==
    {<<>>, << <<"a">> >>, << <<"a">>, <<"b">> >>, << <<"a", "-", "b">> >>,
     << <<"a">>, <<>> >>, << [i \in 1 .. 50 |-> "a"] >>, << [i \in 1 .. 51 |-> "a"] >>}

\* main has not started (the state of the other specifications).
MainIdle ==
    /\ main_pc = "idle"
    /\ monitor_flag = FALSE
    /\ main_result = "none"
    /\ exit_status = <<>>
    /\ direct_task = <<>>
    /\ spawn_idx = 0
    /\ joined = {}
    /\ successful = 0 /\ failed = 0

\* main is entered with any room list and mode.
MainStart ==
    /\ room_list \in RoomLists
    /\ monitor_flag \in BOOLEAN
    /\ main_pc = "start"
    /\ main_result = "none"
    /\ exit_status = <<>>
    /\ direct_task = [i \in 1 .. Len(room_list) |-> "none"]
    /\ spawn_idx = 0
    /\ joined = {}
    /\ successful = 0 /\ failed = 0

\* Mutant: only an empty name is rejected.
RoomsAccepted_nonempty(rooms) ==
    rooms # <<>> /\ \A i \in 1 .. Len(rooms) : rooms[i] # <<>>

\* `rooms.is_empty()` and the loop over validate_room_name do not return early.
RoomsAccepted(rooms) ==
    rooms # <<>> /\ \A i \in 1 .. Len(rooms) : validate_room_name(rooms[i])

\* main up to the room checks: an empty list or an invalid name returns
\* ExitCode::from(1).
MainValidate ==
    /\ main_pc = "start"
    /\ IF RoomsAccepted(room_list)
       THEN main_pc' = "client" /\ UNCHANGED exit_status
       ELSE main_pc' = "exited" /\ exit_status' = <<1>>
    /\ UNCHANGED <<monitor_flag, main_result, direct_task, spawn_idx, joined,
                   successful, failed>>

\* ChaturbateClient::new: a failure returns ExitCode::from(1); otherwise the
\* Ctrl+C task is spawned and the mode is entered.
MainClient ==
    /\ main_pc = "client"
    /\ \/ main_pc' = "exited" /\ exit_status' = <<1>> /\ UNCHANGED spawn_idx
       \/ /\ main_pc' = IF monitor_flag THEN "monitor" ELSE "direct_spawn"
          /\ spawn_idx' = 1
          /\ UNCHANGED exit_status
    /\ UNCHANGED <<monitor_flag, main_result, direct_task, joined, successful, failed>>

\* Ctrl+C while the direct mode runs: the root token is cancelled.
DirectInterrupt ==
    /\ main_pc \in {"direct_spawn", "direct_join"} /\ ~cancel_token
    /\ cancel_token' = TRUE
    /\ UNCHANGED <<mpc, room_idx, check_result, is_recording, private_count,
                   cloudflare_count, checked_count, active_recordings, rec_cancel,
                   rec_task, task_count, room_status, check_states, cookie_dead,
                   cookie_dead_alerted, was_cookie_dead, last_hook,
                   hooks_alternate, join_target, shutdown_active>>
    /\ UNCHANGED mainVars

\* `for room in rooms { tasks.spawn(..) }`: the task starts with get_stream_info.
DirectSpawn ==
    /\ main_pc = "direct_spawn"
    /\ IF spawn_idx <= Len(room_list)
       THEN /\ direct_task' = [direct_task EXCEPT ![spawn_idx] = "checking"]
            /\ spawn_idx' = spawn_idx + 1
            /\ UNCHANGED main_pc
       ELSE /\ main_pc' = "direct_join"
            /\ UNCHANGED <<direct_task, spawn_idx>>
    /\ UNCHANGED <<monitor_flag, main_result, exit_status, joined, successful, failed>>

\* A task's get_stream_info fails: the task returns (room, Err(e)).
TaskDiscoveryFails(i) ==
    /\ direct_task[i] = "checking"
    /\ direct_task' = [direct_task EXCEPT ![i] = "Err"]
    /\ UNCHANGED <<main_pc, monitor_flag, main_result, exit_status, spawn_idx,
                   joined, successful, failed>>

\* A task's get_stream_info succeeds: the task calls record_stream.
TaskRecords(i) ==
    /\ direct_task[i] = "checking"
    /\ direct_task' = [direct_task EXCEPT ![i] = "recording"]
    /\ UNCHANGED <<main_pc, monitor_flag, main_result, exit_status, spawn_idx,
                   joined, successful, failed>>

\* A task's record_stream returns (stream end, cancellation, error): the task
\* returns (room, result).
TaskReturns(i) ==
    /\ direct_task[i] = "recording"
    /\ \E res \in {"Ok", "Err"} : direct_task' = [direct_task EXCEPT ![i] = res]
    /\ UNCHANGED <<main_pc, monitor_flag, main_result, exit_status, spawn_idx,
                   joined, successful, failed>>

\* A task panics.
TaskPanics(i) ==
    /\ direct_task[i] \in {"checking", "recording"}
    /\ direct_task' = [direct_task EXCEPT ![i] = "panic"]
    /\ UNCHANGED <<main_pc, monitor_flag, main_result, exit_status, spawn_idx,
                   joined, successful, failed>>

\* `tasks.join_next().await` yields a finished task, which is tallied.
DirectJoin ==
    /\ main_pc = "direct_join"
    /\ \E i \in DOMAIN direct_task \ joined :
          /\ direct_task[i] \in {"Ok", "Err", "panic"}
          /\ joined' = joined \cup {i}
          /\ successful' = successful + (IF direct_task[i] = "Ok" THEN 1 ELSE 0)
          /\ failed' = failed + (IF direct_task[i] = "Ok" THEN 0 ELSE 1)
    /\ UNCHANGED <<main_pc, monitor_flag, main_result, exit_status, direct_task,
                   spawn_idx>>

\* Mutant: any failed task fails the run.
DirectResult_any_failed(ok, bad) == IF bad > 0 THEN "Config" ELSE "Ok"

\* `if failed > 0 && successful == 0 { Err(Error::Config(..)) } else { Ok(()) }`
DirectResult(ok, bad) == IF bad > 0 /\ ok = 0 THEN "Config" ELSE "Ok"

\* join_next yields None once the set is empty: run_direct_mode returns.
DirectReturn ==
    /\ main_pc = "direct_join" /\ joined = DOMAIN direct_task
    /\ main_result' = DirectResult(successful, failed)
    /\ main_pc' = "result"
    /\ UNCHANGED <<monitor_flag, exit_status, direct_task, spawn_idx, joined,
                   successful, failed>>

\* run_monitor_mode returns what RoomMonitor::run returned: Ok(()).
MonitorReturn ==
    /\ main_pc = "monitor" /\ mpc = "returned"
    /\ main_result' = "Ok"
    /\ main_pc' = "result"
    /\ UNCHANGED <<monitor_flag, exit_status, direct_task, spawn_idx, joined,
                   successful, failed>>

\* The match on `result` at the end of main.
MainExit ==
    /\ main_pc = "result"
    /\ exit_status' = <<IF main_result = "Ok" THEN EXIT_SUCCESS
                        ELSE exit_code(main_result)>>
    /\ main_pc' = "exited"
    /\ UNCHANGED <<monitor_flag, main_result, direct_task, spawn_idx, joined,
                   successful, failed>>

\* ------------------------------------------- ChaturbateClient, discovery

\* The HTTP statuses of the model.
Statuses == {200, 403, 404, 429, 500, 502}

\* `status.is_success()`
is_success(status) == status >= 200 /\ status <= 299

\* Which of the markers "<title>Just a moment...</title>" and "Verify your age"
\* a body contains.
Markers == {"none", "cloudflare", "age", "both"}

\* What the room page says about hls_source: no initialRoomDossier match, a
\* blob that is not JSON, a blob without the field, with null, with "", with a URL.
Dossiers == {"no_match", "bad_json", "missing", "null", "empty", "url"}

\* Bodies of a room page: its markers, whether it contains "playlist.m3u8",
\* and its dossier.
PageBodies == [marker : Markers, playlist : BOOLEAN, dossier : Dossiers]

\* Bodies of a master playlist URL: not a master playlist, one without
\* variants, one with a variant URI that does not resolve, one with variants.
MasterBodies ==
    [marker : Markers, master : {"bad_m3u8", "no_variants", "bad_uri", "variants"}]

\* What a request can meet: send() fails, or a response with a status whose
\* body can or cannot be read.
Responses(bodies) ==
    {[transport |-> "send_error"]}
        \cup [transport : {"ok", "body_error"}, status : Statuses, body : bodies]

Err(e) == [kind |-> "Err", error |-> e]

\* ChaturbateClient::get
get(resp) ==
    IF resp.transport = "send_error" THEN Err("Network")
    ELSE IF resp.status = 403 THEN Err("PrivateStream")
    ELSE IF resp.status = 404 THEN Err("RoomNotFound")
    ELSE IF resp.transport = "body_error" THEN Err("Network")
    ELSE IF resp.body.marker \in {"cloudflare", "both"} THEN Err("CloudflareBlocked")
    ELSE IF resp.body.marker = "age" THEN Err("AgeVerification")
    ELSE [kind |-> "Ok", text |-> resp.body]

\* ChaturbateClient::get_bytes.  The Network error wraps the reqwest error,
\* which tells the failed send, the status, or the failed read of the body.
get_bytes(resp) ==
    IF resp.transport = "send_error"
    THEN [kind |-> "Err", error |-> "Network", cause |-> "send", status |-> 0]
    ELSE IF ~is_success(resp.status)
    THEN [kind |-> "Err", error |-> "Network", cause |-> "status",
          status |-> resp.status]
    ELSE IF resp.transport = "body_error"
    THEN [kind |-> "Err", error |-> "Network", cause |-> "body",
          status |-> resp.status]
    ELSE [kind |-> "Ok", data |-> resp.body]

\* Mutant: a missing hls_source counts as offline.
hls_source_error_offline(dossier) ==
    IF dossier \in {"missing", "null", "empty"} THEN "BroadcasterOffline" ELSE "none"

\* The error for the parsed dossier's hls_source: None is StreamNotFound, ""
\* is BroadcasterOffline.
hls_source_error(dossier) ==
    IF dossier \in {"missing", "null"} THEN "StreamNotFound"
    ELSE IF dossier = "empty" THEN "BroadcasterOffline"
    ELSE "none"

\* get_stream_info from the fetched page to the master URL: the error it
\* returns, or "none".
page_error(html) ==
    IF ~html.playlist THEN "BroadcasterOffline"
    ELSE IF html.dossier = "no_match" THEN "StreamNotFound"
    ELSE IF html.dossier = "bad_json" THEN "Json"
    ELSE hls_source_error(html.dossier)

\* The variants of the model, without their URLs: the framerate is 60 or 30
\* by the variant's NAME attribute.
VariantShapes ==
    [resolution : {480, 720, 1080}, framerate : {30, 60}, bandwidth : {1, 2}]

\* The master playlists of the model: any one or two variants, and the list
\* (1080,30), (720,60), (720,30), (480,30) in an order that is not sorted.
VariantLists ==
    {<<a>> : a \in VariantShapes}
        \cup {<<a, b>> : a \in VariantShapes, b \in VariantShapes}
        \cup {<<[resolution |-> 720, framerate |-> 30, bandwidth |-> 1],
                [resolution |-> 480, framerate |-> 30, bandwidth |-> 1],
                [resolution |-> 1080, framerate |-> 30, bandwidth |-> 2],
                [resolution |-> 720, framerate |-> 60, bandwidth |-> 2]>>}

\* The targets of the model: resolutions below, among and at the top of the
\* variants' resolutions.
Targets == [resolution : {360, 720, 1080}, framerate : {30, 60}]

\* Mutant: the order puts framerate before resolution.
Before_framerate_first(a, b) ==
    \/ a.framerate > b.framerate
    \/ a.framerate = b.framerate /\ a.resolution > b.resolution
    \/ /\ a.framerate = b.framerate /\ a.resolution = b.resolution
       /\ a.bandwidth > b.bandwidth

\* The comparator of variants.sort_by: a sorts strictly before b.
Before(a, b) ==
    \/ a.resolution > b.resolution
    \/ a.resolution = b.resolution /\ a.framerate > b.framerate
    \/ /\ a.resolution = b.resolution /\ a.framerate = b.framerate
       /\ a.bandwidth > b.bandwidth

\* sort_by is stable: v goes behind everything that does not sort after it.
RECURSIVE InsertSorted(_, _)
InsertSorted(sorted, v) ==
    IF sorted = <<>> THEN <<v>>
    ELSE IF Before(v, Head(sorted)) THEN <<v>> \o sorted
    ELSE <<Head(sorted)>> \o InsertSorted(Tail(sorted), v)

RECURSIVE SortVariants(_)
SortVariants(list) ==
    IF list = <<>> THEN <<>>
    ELSE InsertSorted(SortVariants(SubSeq(list, 1, Len(list) - 1)), list[Len(list)])

\* `iter().find(..)`: the first position at which the predicate holds, given
\* its value at every position, or 0.
FirstWhere(holds) ==
    IF \E i \in 1 .. Len(holds) : holds[i]
    THEN CHOOSE i \in 1 .. Len(holds) : holds[i] /\ \A j \in 1 .. i - 1 : ~holds[j]
    ELSE 0

\* select_variant from the sort on: the variant selected from a non-empty
\* list, each variant tagged with its URL.
select_variant(list, t) ==
    LET tagged == [i \in 1 .. Len(list) |->
                      [url |-> i, resolution |-> list[i].resolution,
                       framerate |-> list[i].framerate,
                       bandwidth |-> list[i].bandwidth]]
        sorted == SortVariants(tagged)
        Exact(v) == v.resolution = t.resolution /\ v.framerate = t.framerate
        Below(v) == v.resolution <= t.resolution /\ v.framerate <= t.framerate
        exact == FirstWhere([i \in 1 .. Len(sorted) |-> Exact(sorted[i])])
        below == FirstWhere([i \in 1 .. Len(sorted) |-> Below(sorted[i])])
    IN  IF exact # 0 THEN sorted[exact]
        ELSE IF below # 0 THEN sorted[below]
        ELSE sorted[1]

\* get_stream_info has not been called (the state of the other specifications).
DiscoveryIdle ==
    /\ disc_pc = "idle"
    /\ http_response = [transport |-> "none"]
    /\ fetch_result = [kind |-> "none"]
    /\ target = [resolution |-> 0, framerate |-> 0]
    /\ variants = <<>>
    /\ disc_result = [kind |-> "none"]

\* get_stream_info is entered with any target.
DiscoveryStart ==
    /\ disc_pc = "start"
    /\ http_response = [transport |-> "none"]
    /\ fetch_result = [kind |-> "none"]
    /\ target \in Targets
    /\ variants = <<>>
    /\ disc_result = [kind |-> "none"]

\* get_stream_info up to the master URL: the room page is fetched and searched.
GetRoomPage ==
    /\ disc_pc = "start"
    /\ \E resp \in Responses(PageBodies) :
          /\ http_response' = resp
          /\ fetch_result' = get(resp)
    /\ IF fetch_result'.kind = "Err"
       THEN disc_result' = fetch_result' /\ disc_pc' = "done"
       ELSE IF page_error(fetch_result'.text) # "none"
       THEN disc_result' = Err(page_error(fetch_result'.text)) /\ disc_pc' = "done"
       ELSE disc_pc' = "master" /\ UNCHANGED disc_result
    /\ UNCHANGED <<target, variants>>

\* select_variant: the master playlist is fetched and parsed, its variants are
\* collected, and one is selected.
SelectVariant ==
    /\ disc_pc = "master"
    /\ \E resp \in Responses(MasterBodies) :
          /\ http_response' = resp
          /\ fetch_result' = get(resp)
    /\ IF fetch_result'.kind = "Err"
       THEN disc_result' = fetch_result' /\ UNCHANGED variants
       ELSE IF fetch_result'.text.master \in {"bad_m3u8", "no_variants"}
       THEN disc_result' = Err("M3u8") /\ UNCHANGED variants
       ELSE IF fetch_result'.text.master = "bad_uri"
       THEN disc_result' = Err("UrlParse") /\ UNCHANGED variants
       ELSE \E list \in VariantLists :
               /\ variants' = list
               /\ disc_result' = [kind |-> "Ok",
                                  info |-> select_variant(list, target)]
    /\ disc_pc' = "done"
    /\ UNCHANGED target

\* --------------------------------------------- one room's RoomCheckState

BackoffIdle ==
    /\ PathIdle
    /\ bk_state = RoomCheckState_new
    /\ bk_base = 0
    /\ bk_recording = FALSE
    /\ bk_hist = <<>>

\* The last MaxHist entries of h, with e appended.
Remember(h, e) ==
    LET all == Append(h, e)
    IN  IF Len(all) > MaxHist THEN SubSeq(all, 2, Len(all)) ELSE all

\* One check result of the room, as the match in RoomMonitor::run treats it.
\* The history entry keeps what was scheduled.
BkCheck ==
    \E outcome \in Outcomes :
        LET after == CheckStateAfter(bk_state, outcome, bk_recording, bk_base)
            recorded == outcome # "Ok" /\ (outcome = "Other" \/ ~bk_recording)
        IN  /\ after.consecutive_same_error <= MaxConsecutive
            /\ bk_state' = after
            /\ bk_recording' = (bk_recording \/ ShouldSpawn(outcome, bk_recording))
            /\ bk_hist' = Remember(bk_hist,
                   [outcome |-> outcome,
                    is_recording |-> bk_recording,
                    recorded |-> recorded,
                    is_new |-> recorded /\ record_error_is_new(bk_state, outcome),
                    prev_kind |-> bk_state.last_error_kind,
                    consecutive |-> after.consecutive_same_error,
                    next_check_at |-> after.next_check_at])
            /\ UNCHANGED bk_base

\* The room's recording finished and was swept by the monitor's cleanup.
BkSwept ==
    /\ bk_recording
    /\ bk_recording' = FALSE
    /\ UNCHANGED <<bk_state, bk_base, bk_hist>>

\* A cookie recovery resets every room's state, this room's included.  It
\* comes at the end of a cycle without a Private or Cloudflare result, in which
\* this room was checked, as no room is skipped while the cookie is dead.
BkRecovered ==
    /\ bk_hist # <<>>
    /\ bk_hist[Len(bk_hist)].outcome \in Outcomes \ {"Private", "Cloudflare"}
    /\ bk_state' = RecoveredStates(<<bk_state>>)[1]
    /\ bk_hist' = Remember(bk_hist,
           [outcome |-> "Recovered", is_recording |-> bk_recording,
            recorded |-> FALSE, is_new |-> FALSE,
            prev_kind |-> bk_state.last_error_kind,
            consecutive |-> 0, next_check_at |-> <<>>])
    /\ UNCHANGED <<bk_base, bk_recording>>

\* ------------------------------------------------------ SegmentTracker

\* What extract_sequence gives for a URI without a `_<digits>.ts` suffix.
NoSeq == -1

SegmentTracker_new == [last_sequence |-> 0]

\* Mutant: a sequence number equal to the last one counts as new.
is_new_segment_or_equal(t, sequence) == sequence >= t.last_sequence

is_new_segment(t, sequence) == sequence > t.last_sequence

\* Mutant: the tracker takes whatever number it is given.
update_sequence_assign(t, sequence) == [last_sequence |-> sequence]

\* Mutant: the tracker never advances.
update_sequence_stuck(t, sequence) == t

update_sequence(t, sequence) ==
    IF sequence > t.last_sequence THEN [last_sequence |-> sequence] ELSE t

\* No call has been made on the tracker under test.
TrackerIdle ==
    /\ trk = SegmentTracker_new
    /\ trk_call = [op |-> "none"]

\* tracker.is_new_segment(sequence)
TrkIsNew(sequence) ==
    /\ trk_call' = [op |-> "is_new_segment", sequence |-> sequence,
                    before |-> trk.last_sequence,
                    result |-> is_new_segment(trk, sequence)]
    /\ UNCHANGED trk

\* tracker.update_sequence(sequence)
TrkUpdate(sequence) ==
    /\ trk' = update_sequence(trk, sequence)
    /\ trk_call' = [op |-> "update_sequence", sequence |-> sequence,
                    before |-> trk.last_sequence, result |-> FALSE]

\* ------------------------------------------------------- record_stream

RecordingStats_default ==
    [segments_downloaded |-> 0, bytes_written |-> 0, duration_seconds |-> 0,
     files_created |-> 0]

\* The attempts download_segment_with_retry is called with.
max_retries == 3

\* What extract_sequence may give for a segment of a playlist.
SegmentSeqs == {NoSeq} \cup (0 .. MaxSeq)

\* The sizes and durations of segments, and the split limits (0: no limit).
SegmentBytes == {1, 2}
SegmentDurations == {1, 2}
SplitLimits == {0, 2}

\* Mutant: a limit must be exceeded, not just met.
should_split_file_strict(duration, size, max_dur, max_size) ==
    \/ max_dur > 0 /\ duration > max_dur
    \/ max_size > 0 /\ size > max_size

should_split_file(duration, size, max_dur, max_size) ==
    \/ max_dur > 0 /\ duration >= max_dur
    \/ max_size > 0 /\ size >= max_size

\* record_stream has not been called (the state of the other specifications).
RecorderIdle ==
    /\ rec_pc = "idle"
    /\ token_cancelled = FALSE
    /\ tracker = SegmentTracker_new
    /\ stats = RecordingStats_default
    /\ file_duration = 0 /\ file_size = 0 /\ file_sequence = 0
    /\ max_duration_secs = 0 /\ max_filesize_bytes = 0
    /\ playlist_len = 0
    /\ seg_idx = 0
    /\ segment = NoSeq
    /\ attempt = 0
    /\ result = [kind |-> "none"]
    /\ written = <<>>
    /\ unflushed = FALSE
    /\ TrackerIdle
    /\ skipped = {}
    /\ exit_path = "none"

\* record_stream is entered, with any split limits.
RecorderInit ==
    /\ rec_pc = "start"
    /\ token_cancelled = FALSE
    /\ tracker = SegmentTracker_new
    /\ stats = RecordingStats_default
    /\ file_duration = 0 /\ file_size = 0 /\ file_sequence = 0
    /\ max_duration_secs \in SplitLimits
    /\ max_filesize_bytes \in SplitLimits
    /\ playlist_len = 0
    /\ seg_idx = 0
    /\ segment = NoSeq
    /\ attempt = 0
    /\ result = [kind |-> "none"]
    /\ written = <<>>
    /\ unflushed = FALSE
    /\ TrackerIdle
    /\ skipped = {}
    /\ exit_path = "none"

\* `return Err(e)` by a `?`: nothing more runs.
ReturnErr(e) ==
    /\ result' = [kind |-> "Err", error |-> e]
    /\ rec_pc' = "done"
    /\ exit_path' = "error"

\* The for loop moves to position i of the playlist; the segment there may
\* carry any sequence number.
SegmentAt(i, len) ==
    /\ seg_idx' = i
    /\ segment' \in IF i <= len THEN SegmentSeqs ELSE {NoSeq}

\* The recording's cancel_token is cancelled (by the monitor or by Ctrl+C).
RecCancel ==
    /\ rec_pc \notin {"idle", "done"} /\ ~token_cancelled
    /\ token_cancelled' = TRUE
    /\ UNCHANGED <<rec_pc, tracker, stats, file_duration, file_size, file_sequence,
                   max_duration_secs, max_filesize_bytes, playlist_len, seg_idx,
                   segment, attempt, result, written, unflushed, exit_path>>

\* Create the initial output file.
RecStart ==
    /\ rec_pc = "start"
    /\ \/ /\ stats' = [stats EXCEPT !.files_created = 1]
          /\ rec_pc' = "top"
          /\ UNCHANGED <<result, exit_path>>
       \/ /\ ReturnErr("Io")
          /\ UNCHANGED stats
    /\ UNCHANGED <<token_cancelled, tracker, file_duration, file_size, file_sequence,
                   max_duration_secs, max_filesize_bytes, playlist_len, seg_idx,
                   segment, attempt, written, unflushed>>

\* Mutant: the loop does not look at the token.
LoopTopTarget_ignore(cancelled) == "fetch"

\* `if cancel_token.is_cancelled() { break; }`
LoopTopTarget(cancelled) == IF cancelled THEN "flush" ELSE "fetch"

RecLoopTop ==
    /\ rec_pc = "top"
    /\ rec_pc' = LoopTopTarget(token_cancelled)
    /\ exit_path' = IF rec_pc' = "flush" THEN "cancelled" ELSE exit_path
    /\ UNCHANGED <<token_cancelled, tracker, stats, file_duration, file_size,
                   file_sequence, max_duration_secs, max_filesize_bytes,
                   playlist_len, seg_idx, segment, attempt, result, written, unflushed>>

\* The playlist fetch fails, or its text does not parse: sleep and retry.
RecFetchFails ==
    /\ rec_pc = "fetch"
    /\ rec_pc' = "sleep"
    /\ UNCHANGED <<token_cancelled, tracker, stats, file_duration, file_size,
                   file_sequence, max_duration_secs, max_filesize_bytes,
                   playlist_len, seg_idx, segment, attempt, result, written, unflushed,
                   exit_path>>

\* A playlist is fetched and parsed, and it carries end_list: break, before
\* the for loop over its segments.  The playlist may list any segments; its
\* first one stays in `segment`.
RecStreamEnded ==
    /\ rec_pc = "fetch"
    /\ playlist_len' \in 0 .. MaxSegments
    /\ SegmentAt(1, playlist_len')
    /\ rec_pc' = "flush"
    /\ exit_path' = "ended"
    /\ UNCHANGED <<token_cancelled, tracker, stats, file_duration, file_size,
                   file_sequence, max_duration_secs, max_filesize_bytes,
                   attempt, result, written, unflushed>>

\* A playlist is fetched and parsed; the for loop starts at its first segment.
RecFetchPlaylist ==
    /\ rec_pc = "fetch"
    /\ playlist_len' \in 0 .. MaxSegments
    /\ SegmentAt(1, playlist_len')
    /\ rec_pc' = "segments"
    /\ UNCHANGED <<token_cancelled, tracker, stats, file_duration, file_size,
                   file_sequence, max_duration_secs, max_filesize_bytes, attempt,
                   result, written, unflushed, exit_path>>

\* The end of `for segment in &playlist.segments`: sleep one poll interval.
RecSegmentsDone ==
    /\ rec_pc = "segments" /\ seg_idx > playlist_len
    /\ playlist_len' = 0
    /\ seg_idx' = 0
    /\ rec_pc' = "sleep"
    /\ UNCHANGED <<token_cancelled, tracker, stats, file_duration, file_size,
                   file_sequence, max_duration_secs, max_filesize_bytes, segment,
                   attempt, result, written, unflushed, exit_path>>

\* The next segment: skipped without a sequence number or when not new; else
\* its URL is resolved (which may fail) and its download begins.
RecSegment ==
    /\ rec_pc = "segments" /\ seg_idx <= playlist_len
    /\ IF segment # NoSeq /\ is_new_segment(tracker, segment)
       THEN \/ /\ rec_pc' = "download"
               /\ attempt' = 0
               /\ UNCHANGED <<seg_idx, segment, result, exit_path>>
            \/ /\ ReturnErr("UrlParse")
               /\ UNCHANGED <<seg_idx, segment, attempt>>
       ELSE /\ SegmentAt(seg_idx + 1, playlist_len)
            /\ UNCHANGED <<rec_pc, attempt, result, exit_path>>
    /\ UNCHANGED <<token_cancelled, tracker, stats, file_duration, file_size,
                   file_sequence, max_duration_secs, max_filesize_bytes,
                   playlist_len, written, unflushed>>

\* One attempt of download_segment_with_retry: the data arrives, or the attempt
\* fails and, after the last one, the segment is skipped.
RecDownload ==
    /\ rec_pc = "download"
    /\ \/ /\ rec_pc' = "write"
          /\ UNCHANGED <<attempt, seg_idx, segment>>
       \/ /\ attempt' = attempt + 1
          /\ IF attempt + 1 < max_retries
             THEN UNCHANGED <<rec_pc, seg_idx, segment>>
             ELSE /\ rec_pc' = "segments"
                  /\ SegmentAt(seg_idx + 1, playlist_len)
    /\ UNCHANGED <<token_cancelled, tracker, stats, file_duration, file_size,
                   file_sequence, max_duration_secs, max_filesize_bytes,
                   playlist_len, result, written, unflushed, exit_path>>

\* write_all, the counters, tracker.update_sequence, and the split check.
RecWrite ==
    /\ rec_pc = "write"
    /\ \/ \E bytes \in SegmentBytes, duration \in SegmentDurations :
            /\ file_size' = file_size + bytes
            /\ file_duration' = file_duration + duration
            /\ stats' = [stats EXCEPT !.bytes_written = @ + bytes,
                                      !.duration_seconds = @ + duration,
                                      !.segments_downloaded = @ + 1]
            /\ tracker' = update_sequence(tracker, segment)
            /\ written' = Append(written, segment)
            /\ unflushed' = TRUE
            /\ IF should_split_file(file_duration', file_size', max_duration_secs,
                                    max_filesize_bytes)
               THEN rec_pc' = "split" /\ UNCHANGED <<seg_idx, segment>>
               ELSE rec_pc' = "segments" /\ SegmentAt(seg_idx + 1, playlist_len)
            /\ UNCHANGED <<result, exit_path>>
       \/ /\ ReturnErr("Io")
          /\ UNCHANGED <<file_size, file_duration, stats, tracker, written, unflushed,
                         seg_idx, segment>>
    /\ UNCHANGED <<token_cancelled, file_sequence, max_duration_secs,
                   max_filesize_bytes, playlist_len, attempt>>

\* Split: flush and close the file, open the next one, reset the file counters.
RecSplit ==
    /\ rec_pc = "split"
    /\ unflushed' = FALSE
    /\ \/ /\ file_sequence' = file_sequence + 1
          /\ file_duration' = 0
          /\ file_size' = 0
          /\ stats' = [stats EXCEPT !.files_created = @ + 1]
          /\ rec_pc' = "segments"
          /\ SegmentAt(seg_idx + 1, playlist_len)
          /\ UNCHANGED <<result, exit_path>>
       \/ /\ ReturnErr("Io")
          /\ UNCHANGED <<file_sequence, file_duration, file_size, stats, seg_idx,
                         segment>>
    /\ UNCHANGED <<token_cancelled, tracker, max_duration_secs, max_filesize_bytes,
                   playlist_len, attempt, written>>

\* `tokio::time::sleep(poll_interval)`, then the next iteration.
RecSleep ==
    /\ rec_pc = "sleep"
    /\ rec_pc' = "top"
    /\ UNCHANGED <<token_cancelled, tracker, stats, file_duration, file_size,
                   file_sequence, max_duration_secs, max_filesize_bytes,
                   playlist_len, seg_idx, segment, attempt, result, written, unflushed,
                   exit_path>>

\* After the loop (the last playlist is out of scope): the final flush, then
\* Ok(stats).
RecFlush ==
    /\ rec_pc = "flush"
    /\ playlist_len' = 0
    /\ seg_idx' = 0
    /\ segment' = NoSeq
    /\ unflushed' = FALSE
    /\ rec_pc' = "done"
    /\ \/ result' = [kind |-> "Ok", stats |-> stats]
       \/ result' = [kind |-> "Err", error |-> "Io"]
    /\ UNCHANGED <<token_cancelled, tracker, stats, file_duration, file_size,
                   file_sequence, max_duration_secs, max_filesize_bytes,
                   attempt, written, exit_path>>

\* ------------------------------------------ download_segment_with_retry

\* download_segment_with_retry has not been called (the state of the other
\* specifications).
RetryIdle ==
    /\ retry_pc = "idle"
    /\ retry_attempt = 0
    /\ last_error = <<>>
    /\ retry_result = [kind |-> "none"]
    /\ retry_log = <<>>

\* download_segment_with_retry is entered.
RetryStart ==
    /\ retry_pc = "attempt"
    /\ retry_attempt = 0
    /\ last_error = <<>>
    /\ retry_result = [kind |-> "none"]
    /\ retry_log = <<>>

\* Mutant: the first error is kept.
last_error_first(last, e) == IF last = <<>> THEN <<e>> ELSE last

\* `last_error = Some(e)`
last_error_set(last, e) == <<e>>

\* One pass of `for attempt in 0..max_retries`: get_bytes returns the data,
\* which is returned at once, or fails; after a failure that is not the last
\* attempt's the delay follows, and after the last one the loop ends and
\* Err(last_error) is returned.  (max_retries is 3, so last_error is Some.)
RetryAttempt ==
    /\ retry_pc = "attempt" /\ retry_attempt < max_retries
    /\ \E resp \in Responses({"data"}) :
          LET r == get_bytes(resp)
          IN  /\ retry_log' = Append(retry_log, [call |-> "get_bytes", result |-> r])
              /\ IF r.kind = "Ok"
                 THEN /\ retry_result' = r
                      /\ retry_pc' = "done"
                      /\ UNCHANGED <<last_error, retry_attempt>>
                 ELSE /\ last_error' = last_error_set(last_error, r)
                      /\ IF retry_attempt + 1 < max_retries
                         THEN /\ retry_pc' = "sleep"
                              /\ UNCHANGED <<retry_result, retry_attempt>>
                         ELSE /\ retry_attempt' = retry_attempt + 1
                              /\ retry_result' = last_error'[1]
                              /\ retry_pc' = "done"

\* `tokio::time::sleep(delay).await`, then the next pass.
RetrySleep ==
    /\ retry_pc = "sleep"
    /\ retry_log' = Append(retry_log, [call |-> "sleep"])
    /\ retry_attempt' = retry_attempt + 1
    /\ retry_pc' = "attempt"
    /\ UNCHANGED <<last_error, retry_result>>

\* ---------------------------------------------------------- Spec: monitor

Init ==
    /\ num_rooms \in RoomCounts
    /\ MonitorInit
    /\ BackoffIdle
    /\ RecorderIdle
    /\ MainIdle
    /\ DiscoveryIdle
    /\ RetryIdle

Next ==
    \/ Cancel /\ UNCHANGED notMon
    \/ LoopTop /\ UNCHANGED notMon
    \/ ShutdownBegin /\ UNCHANGED notMon
    \/ DrainNext /\ UNCHANGED notMon
    \/ DrainJoin /\ UNCHANGED notMon
    \/ ShutdownReturn /\ UNCHANGED notMon
    \/ CheckRoom /\ UNCHANGED notMon
    \/ Dispatch /\ UNCHANGED notMon
    \/ Detect /\ UNCHANGED notMon
    \/ Cleanup /\ UNCHANGED notMon
    \/ Sleep /\ UNCHANGED notMon
    \/ \E r \in Rooms : RecorderEnds(r) /\ UNCHANGED notMon

Spec == Init /\ [][Next]_vars

\* The steps of the monitor's own control loop.
MonitorStep ==
    /\ \/ LoopTop \/ ShutdownBegin \/ DrainNext \/ DrainJoin \/ ShutdownReturn
       \/ CheckRoom \/ Dispatch \/ Detect \/ Cleanup \/ Sleep
    /\ UNCHANGED notMon

\* A recorder whose token is cancelled notices it at its next loop top and returns.
CancelledRecorderEnds(r) ==
    r \in Rooms /\ rec_cancel[r] /\ RecorderEnds(r) /\ UNCHANGED notMon

\* The control loop is scheduled and every fetch completes, so it keeps stepping;
\* a cancelled recorder returns.  The operator's interrupt is not forced.
FairSpec ==
    /\ Spec
    /\ WF_vars(MonitorStep)
    /\ \A r \in 1 .. MaxRooms : WF_vars(CancelledRecorderEnds(r))

\* ------------------------------------------ BackoffSpec: one room's checks

BackoffInit ==
    /\ num_rooms = 1
    /\ MonitorInit
    /\ bk_state = RoomCheckState_new
    /\ bk_base \in 0 .. MaxBase
    /\ bk_recording = FALSE
    /\ bk_hist = <<>>
    /\ PathIdle
    /\ RecorderIdle
    /\ MainIdle
    /\ DiscoveryIdle
    /\ RetryIdle

BackoffNext ==
    \/ BkCheck /\ UNCHANGED <<cfgVars, monVars, recVars, obsVars, pathVars, trkVars, mainVars, discVars, retryVars>>
    \/ BkSwept /\ UNCHANGED <<cfgVars, monVars, recVars, obsVars, pathVars, trkVars, mainVars, discVars, retryVars>>
    \/ BkRecovered /\ UNCHANGED <<cfgVars, monVars, recVars, obsVars, pathVars, trkVars, mainVars, discVars, retryVars>>

BackoffSpec == BackoffInit /\ [][BackoffNext]_vars

\* ------------------------------------------------- RecSpec: one recording

notRec == <<cfgVars, monVars, bkVars, pathVars, trkVars, mainVars, discVars, retryVars>>

\* RecSpec does not observe.
notRecObs == <<notRec, obsVars>>

RecInit ==
    /\ num_rooms = 1
    /\ MonitorInit
    /\ BackoffIdle
    /\ RecorderInit
    /\ MainIdle
    /\ DiscoveryIdle
    /\ RetryIdle

RecNext ==
    \/ RecCancel /\ UNCHANGED notRecObs
    \/ RecStart /\ UNCHANGED notRecObs
    \/ RecLoopTop /\ UNCHANGED notRecObs
    \/ RecFetchFails /\ UNCHANGED notRecObs
    \/ RecStreamEnded /\ UNCHANGED notRecObs
    \/ RecFetchPlaylist /\ UNCHANGED notRecObs
    \/ RecSegmentsDone /\ UNCHANGED notRecObs
    \/ RecSegment /\ UNCHANGED notRecObs
    \/ RecDownload /\ UNCHANGED notRecObs
    \/ RecWrite /\ UNCHANGED notRecObs
    \/ RecSplit /\ UNCHANGED notRecObs
    \/ RecSleep /\ UNCHANGED notRecObs
    \/ RecFlush /\ UNCHANGED notRecObs

RecSpec == RecInit /\ [][RecNext]_vars

\* The steps of record_stream itself.
RecStep ==
    /\ \/ RecStart \/ RecLoopTop \/ RecFetchFails \/ RecStreamEnded
       \/ RecFetchPlaylist \/ RecSegmentsDone \/ RecSegment \/ RecDownload
       \/ RecWrite \/ RecSplit \/ RecSleep \/ RecFlush
    /\ UNCHANGED notRecObs

\* The recorder's task is scheduled and every fetch, write and sleep completes.
RecFairSpec == RecSpec /\ WF_vars(RecStep)

\* ------------------------------- SkipSpec: one recording, skips observed

\* The skipped set after a step of record_stream: a download whose last retry
\* failed adds its segment's sequence number.
SkippedAfter ==
    IF rec_pc = "download" /\ rec_pc' = "segments" THEN skipped \cup {segment}
    ELSE skipped

\* A recording with no split limits.
SkipInit ==
    /\ RecInit
    /\ max_duration_secs = 0 /\ max_filesize_bytes = 0

SkipNext ==
    \/ RecCancel /\ skipped' = SkippedAfter /\ UNCHANGED notRec
    \/ RecStart /\ skipped' = SkippedAfter /\ UNCHANGED notRec
    \/ RecLoopTop /\ skipped' = SkippedAfter /\ UNCHANGED notRec
    \/ RecFetchFails /\ skipped' = SkippedAfter /\ UNCHANGED notRec
    \/ RecStreamEnded /\ skipped' = SkippedAfter /\ UNCHANGED notRec
    \/ RecFetchPlaylist /\ skipped' = SkippedAfter /\ UNCHANGED notRec
    \/ RecSegmentsDone /\ skipped' = SkippedAfter /\ UNCHANGED notRec
    \/ RecSegment /\ skipped' = SkippedAfter /\ UNCHANGED notRec
    \/ RecDownload /\ skipped' = SkippedAfter /\ UNCHANGED notRec
    \/ RecWrite /\ skipped' = SkippedAfter /\ UNCHANGED notRec
    \/ RecSleep /\ skipped' = SkippedAfter /\ UNCHANGED notRec
    \/ RecFlush /\ skipped' = SkippedAfter /\ UNCHANGED notRec

SkipSpec == SkipInit /\ [][SkipNext]_vars

\* ------------------------- PathSpec: the files of two running recorders

notPath == <<cfgVars, monVars, bkVars, recVars, obsVars, trkVars, mainVars, discVars, retryVars>>

PathSpecInit ==
    /\ num_rooms = 1
    /\ MonitorInit
    /\ bk_state = RoomCheckState_new /\ bk_base = 0
    /\ bk_recording = FALSE /\ bk_hist = <<>>
    /\ RecorderIdle
    /\ PathInit
    /\ MainIdle
    /\ DiscoveryIdle
    /\ RetryIdle

PathNext ==
    \/ Tick /\ UNCHANGED notPath
    \/ \E i \in 1 .. 2 : OpenFirst(i) /\ UNCHANGED notPath
    \/ \E i \in 1 .. 2 : OpenNext(i) /\ UNCHANGED notPath
    \/ \E i \in 1 .. 2 : CloseFile(i) /\ UNCHANGED notPath

PathSpec == PathSpecInit /\ [][PathNext]_vars

\* ------------------------- FileSpec: one recording and its output files

notFile == <<cfgVars, monVars, bkVars, obsVars, trkVars, mainVars, discVars, retryVars>>

\* create_output_file(room, config, sequence) at the time `now`.
create_output_file(sequence) ==
    [status |-> "open", sequence |-> sequence, at |-> now,
     path |-> generate_output_path(filename_pattern, room_list[1], sequence, now)]

\* The recording's output file after a step of record_stream: the initial file
\* is created with sequence 0, a split creates the next one with the
\* incremented file_sequence, and a return closes the file.
FileAfter ==
    IF rec_pc = "start" /\ rec_pc' = "top" THEN <<create_output_file(0)>>
    ELSE IF rec_pc = "split" /\ rec_pc' = "segments"
         THEN <<create_output_file(file_sequence')>>
    ELSE IF rec_pc' = "done" THEN <<[status |-> "returned"]>>
    ELSE open_file

\* record_stream is entered for a room whose name ends like a sequence suffix,
\* with any filename pattern and any split limits.
FileInit ==
    /\ num_rooms = 1
    /\ MonitorInit
    /\ bk_state = RoomCheckState_new /\ bk_base = 0
    /\ bk_recording = FALSE /\ bk_hist = <<>>
    /\ RecorderInit
    /\ room_list = <<(<<"a", "_", "1">>)>>
    /\ filename_pattern \in Patterns
    /\ now = 0
    /\ open_file = <<NoFile>>
    /\ MainIdle
    /\ DiscoveryIdle
    /\ RetryIdle

\* A step of record_stream that takes no time.
FileStep ==
    /\ open_file' = FileAfter
    /\ UNCHANGED <<room_list, filename_pattern, now, notFile>>

\* The clock during a poll interval: it may reach the next second.
FileSleep ==
    /\ open_file' = FileAfter
    /\ now' \in {now, Min(now + 1, MaxNow)}
    /\ UNCHANGED <<room_list, filename_pattern, notFile>>

FileNext ==
    \/ RecCancel /\ FileStep
    \/ RecStart /\ FileStep
    \/ RecLoopTop /\ FileStep
    \/ RecFetchFails /\ FileStep
    \/ RecStreamEnded /\ FileStep
    \/ RecFetchPlaylist /\ FileStep
    \/ RecSegmentsDone /\ FileStep
    \/ RecSegment /\ FileStep
    \/ RecDownload /\ FileStep
    \/ RecWrite /\ FileStep
    \/ RecSplit /\ FileStep
    \/ RecSleep /\ FileSleep
    \/ RecFlush /\ FileStep

FileSpec == FileInit /\ [][FileNext]_vars

\* ------------------------------------------------- MainSpec: the process

\* What main's own steps leave alone, the monitor's variables apart.
notMain == <<cfgVars, bkVars, recVars, obsVars, pathVars, trkVars, discVars, retryVars>>

MainInit ==
    /\ MainStart
    /\ num_rooms = Len(room_list)
    /\ MonitorInit
    /\ bk_state = RoomCheckState_new /\ bk_base = 0
    /\ bk_recording = FALSE /\ bk_hist = <<>>
    /\ RecorderIdle
    /\ filename_pattern = <<>> /\ now = 0 /\ open_file = <<>>
    /\ DiscoveryIdle
    /\ RetryIdle

\* A step of RoomMonitor::run or of one of its recorders, while main awaits
\* run_monitor_mode.
RunMonitor == main_pc = "monitor" /\ Next

MainNext ==
    \/ MainValidate /\ UNCHANGED <<notMain, monVars>>
    \/ MainClient /\ UNCHANGED <<notMain, monVars>>
    \/ RunMonitor
    \/ MonitorReturn /\ UNCHANGED <<notMain, monVars>>
    \/ DirectInterrupt /\ UNCHANGED notMain
    \/ DirectSpawn /\ UNCHANGED <<notMain, monVars>>
    \/ \E i \in DOMAIN direct_task :
          TaskDiscoveryFails(i) /\ UNCHANGED <<notMain, monVars>>
    \/ \E i \in DOMAIN direct_task :
          TaskRecords(i) /\ UNCHANGED <<notMain, monVars>>
    \/ \E i \in DOMAIN direct_task :
          TaskReturns(i) /\ UNCHANGED <<notMain, monVars>>
    \/ \E i \in DOMAIN direct_task :
          TaskPanics(i) /\ UNCHANGED <<notMain, monVars>>
    \/ DirectJoin /\ UNCHANGED <<notMain, monVars>>
    \/ DirectReturn /\ UNCHANGED <<notMain, monVars>>
    \/ MainExit /\ UNCHANGED <<notMain, monVars>>

MainSpec == MainInit /\ [][MainNext]_vars

\* ------------------------------------------ DiscoverySpec: one discovery

notDisc == <<cfgVars, monVars, bkVars, recVars, obsVars, pathVars, trkVars, mainVars,
            retryVars>>

DiscoveryInit ==
    /\ num_rooms = 1
    /\ MonitorInit
    /\ BackoffIdle
    /\ RecorderIdle
    /\ MainIdle
    /\ DiscoveryStart
    /\ RetryIdle

DiscoveryNext ==
    \/ GetRoomPage /\ UNCHANGED notDisc
    \/ SelectVariant /\ UNCHANGED notDisc

DiscoverySpec == DiscoveryInit /\ [][DiscoveryNext]_vars

\* ------------------------------------- RetrySpec: one segment's download

notRetry == <<cfgVars, monVars, bkVars, recVars, obsVars, pathVars, trkVars, mainVars,
             discVars>>

RetryInit ==
    /\ num_rooms = 1
    /\ MonitorInit
    /\ BackoffIdle
    /\ RecorderIdle
    /\ MainIdle
    /\ DiscoveryIdle
    /\ RetryStart

RetryNext ==
    \/ RetryAttempt /\ UNCHANGED notRetry
    \/ RetrySleep /\ UNCHANGED notRetry

RetrySpec == RetryInit /\ [][RetryNext]_vars

\* ------------------------------ TrackerSpec: any calls on a SegmentTracker

notTrk == <<cfgVars, monVars, bkVars, recVars, obsVars, pathVars, mainVars, discVars, retryVars>>

TrackerInit ==
    /\ num_rooms = 1
    /\ MonitorInit
    /\ BackoffIdle
    /\ RecorderIdle
    /\ MainIdle
    /\ DiscoveryIdle
    /\ RetryIdle

TrackerNext ==
    \/ \E sequence \in 0 .. MaxCallSeq : TrkIsNew(sequence) /\ UNCHANGED notTrk
    \/ \E sequence \in 0 .. MaxCallSeq : TrkUpdate(sequence) /\ UNCHANGED notTrk

TrackerSpec == TrackerInit /\ [][TrackerNext]_vars

\* --------------------------------------------- CycleSpec: one check cycle

\* A room in its backoff window: two Offline results, three sleeps ago.
InBackoff ==
    Elapse(<<record_error(record_error(RoomCheckState_new, "Offline", check_interval),
                          "Offline", check_interval)>>, 3 * check_interval)[1]

\* The top of a cycle with no active recording: any room list up to MaxRooms,
\* and either the cookie dead (and alerted; backoff is then ignored) or any
\* subset of the rooms in backoff.
CycleInit ==
    /\ num_rooms \in 1 .. MaxRooms
    /\ cancel_token = FALSE
    /\ mpc = "loop_top"
    /\ room_idx = 0
    /\ check_result = "none"
    /\ is_recording = FALSE
    /\ private_count = 0 /\ cloudflare_count = 0 /\ checked_count = 0
    /\ active_recordings = {}
    /\ rec_cancel = [r \in Rooms |-> FALSE]
    /\ rec_task = [r \in Rooms |-> "none"]
    /\ task_count = [r \in Rooms |-> 0]
    /\ cookie_dead \in BOOLEAN
    /\ check_states \in [Rooms -> IF cookie_dead THEN {RoomCheckState_new}
                                  ELSE {RoomCheckState_new, InBackoff}]
    /\ cookie_dead_alerted = cookie_dead
    /\ was_cookie_dead = FALSE
    /\ room_status = [r \in Rooms |->
                         IF cookie_dead THEN "CookieDead"
                         ELSE IF check_states[r] = InBackoff THEN "Offline"
                         ELSE "Unknown"]
    /\ last_hook = IF cookie_dead THEN "alert" ELSE "none"
    /\ hooks_alternate = TRUE
    /\ join_target = 0
    /\ shutdown_active = {}
    /\ BackoffIdle
    /\ RecorderIdle
    /\ MainIdle
    /\ DiscoveryIdle
    /\ RetryIdle

CycleNext ==
    \/ LoopTop /\ UNCHANGED notMon
    \/ CheckRoom /\ UNCHANGED notMon
    \/ Dispatch /\ UNCHANGED notMon
    \/ Detect /\ UNCHANGED notMon

CycleSpec == CycleInit /\ [][CycleNext]_vars

\* ------------------------------------------------------------------ claims

\* C1: the sequence numbers record_stream has written are strictly increasing
\* in write order (so none is written twice), whatever the playlists list and
\* whichever downloads fail; and one segment is counted per write.
C1_WrittenIncreasing ==
    /\ \A i, j \in 1 .. Len(written) : i < j => written[i] < written[j]
    /\ stats.segments_downloaded = Len(written)
    /\ written # <<>> => tracker.last_sequence = written[Len(written)]

\* C1 witness: after two writes, a playlist lists a segment written before.
C1_Witness ==
    /\ Len(written) >= 2
    /\ rec_pc = "segments" /\ seg_idx <= playlist_len
    /\ \E i \in 1 .. Len(written) : written[i] = segment

\* C2: a Recorder task is started only at the step that matches a successful
\* check of a room with no entry in active_recordings; so no room ever has more
\* than one Recorder task, and it has one exactly while the monitor holds its
\* handle (in active_recordings, or taken out of it by the shutdown's drain).
C2_OneRecorderPerRoom ==
    /\ [](\A r \in Rooms :
            /\ task_count[r] <= 1
            /\ task_count[r] = 1 <=> (r \in active_recordings \/ join_target = r))
    /\ [][\A r \in Rooms :
            task_count'[r] > task_count[r] =>
                /\ mpc = "dispatch" /\ room_idx = r
                /\ check_result = "Ok"
                /\ r \notin active_recordings]_vars

\* C2 witness: a check of a room that is already recording has succeeded.
C2_Witness ==
    /\ mpc = "dispatch" /\ check_result = "Ok"
    /\ room_idx \in active_recordings
    /\ task_count[room_idx] = 1

\* C3: once the root token is cancelled, run returns; and when it has returned,
\* every recording that was active at shutdown has had its token cancelled, no
\* Recorder task is left unjoined or running, and active_recordings is empty.
C3_ShutdownDrains ==
    /\ cancel_token ~> (mpc = "returned")
    /\ [](mpc = "returned" =>
            /\ active_recordings = {}
            /\ \A r \in Rooms :
                /\ task_count[r] = 0
                /\ rec_task[r] = "none"
                /\ r \in shutdown_active => rec_cancel[r])

\* C3 witness: run has returned from a shutdown that found recordings active.
C3_Witness == mpc = "returned" /\ shutdown_active # {}

\* C4 as stated: a recorder that left its loop at the cancellation check has
\* returned Ok.
C4_AsStated ==
    (rec_pc = "done" /\ exit_path = "cancelled") => result.kind = "Ok"

\* C4 (amended): a recorder that finds its token cancelled at the loop-top check
\* starts no playlist fetch and goes to the final flush with its stats
\* untouched; the flush leaves the stats untouched; it then has returned
\* Ok(stats), or the I/O error when the flush failed; and once the token is
\* cancelled record_stream eventually returns.
C4_CancelStops ==
    /\ [][(rec_pc = "top" /\ token_cancelled)
            => (rec_pc' = "flush" /\ stats' = stats)]_vars
    /\ [][rec_pc = "flush" => (rec_pc' \in {"flush", "done"} /\ stats' = stats)]_vars
    /\ []((rec_pc = "done" /\ exit_path = "cancelled")
            => \/ result = [kind |-> "Ok", stats |-> stats]
               \/ result = [kind |-> "Err", error |-> "Io"])
    /\ (token_cancelled ~> rec_pc = "done")

\* C4 witness: a cancelled recorder returned Ok with a segment in its stats.
C4_Witness ==
    /\ rec_pc = "done" /\ exit_path = "cancelled"
    /\ result.kind = "Ok"
    /\ result.stats.segments_downloaded >= 1

C6_AlertOncePerEntry ==
    /\ hooks_alternate
    /\ cookie_dead <=> last_hook = "alert"

\* C6 witness: a later cycle of a credential death met the condition again.
C6_Witness ==
    /\ mpc = "cleanup" /\ was_cookie_dead /\ cookie_dead
    /\ CookieDeathCondition(private_count, cloudflare_count, checked_count)
    /\ last_hook = "alert"

Run3(i, k1, k2, k3) ==
    /\ i + 2 <= Len(bk_hist)
    /\ bk_hist[i].outcome = k1 /\ bk_hist[i + 1].outcome = k2
    /\ bk_hist[i + 2].outcome = k3
    /\ \A j \in i .. i + 2 : ~bk_hist[j].is_recording

\* C8 as stated: three Offline results in a row, the first with no error before
\* it, schedule base*2, base*4, base*8.
C8_AsStated ==
    \A i \in 1 .. MaxHist :
        Run3(i, "Offline", "Offline", "Offline") /\ bk_hist[i].prev_kind = "None" =>
            /\ bk_hist[i].next_check_at = <<bk_base * 2>>
            /\ bk_hist[i + 1].next_check_at = <<bk_base * 4>>
            /\ bk_hist[i + 2].next_check_at = <<bk_base * 8>>

\* C8 (amended): three Offline results in a row for a room that is not
\* recording, the first with no error before it, schedule base, base*4, base*8.
C8_ThreeOffline ==
    \A i \in 1 .. MaxHist :
        Run3(i, "Offline", "Offline", "Offline") /\ bk_hist[i].prev_kind = "None" =>
            /\ bk_hist[i].next_check_at = <<bk_base>>
            /\ bk_hist[i + 1].next_check_at = <<bk_base * 4>>
            /\ bk_hist[i + 2].next_check_at = <<bk_base * 8>>

\* C8 witness: such a run, with a positive base.
C8_Witness ==
    /\ bk_base > 0
    /\ Run3(1, "Offline", "Offline", "Offline") /\ bk_hist[1].prev_kind = "None"

\* C9 as stated: Offline, Private, Offline schedules base*2 for the last.
C9_AsStated ==
    \A i \in 1 .. MaxHist :
        Run3(i, "Offline", "Private", "Offline") =>
            bk_hist[i + 2].next_check_at = <<bk_base * 2>>

\* C9 (amended): after Offline results interrupted by one Private result, the
\* next Offline result of a room that is not recording schedules base.
C9_KindChange ==
    \A i \in 1 .. MaxHist :
        Run3(i, "Offline", "Private", "Offline") =>
            /\ bk_hist[i + 2].next_check_at = <<bk_base>>
            /\ bk_hist[i + 2].consecutive = 1

\* C9 witness: two Offline results, a Private one, then Offline again.
C9_Witness ==
    /\ bk_base > 0 /\ Len(bk_hist) = MaxHist
    /\ Run3(MaxHist - 2, "Offline", "Private", "Offline")
    /\ bk_hist[MaxHist - 2].consecutive >= 2

\* C10 as stated: every scheduled delay is base * 2^min(consecutive, 6).
C10_AsStated ==
    \A i \in 1 .. Len(bk_hist) :
        bk_hist[i].recorded =>
            bk_hist[i].next_check_at =
                <<bk_base * Pow2(Min(bk_hist[i].consecutive, 6))>>

\* C10 (amended): a recorded error schedules base when it is the first of its
\* kind and base * 2^min(consecutive, 6) when it repeats; the delay is never
\* below base nor above 64*base and is 64*base from the sixth consecutive error
\* on; a success leaves no pending check time and a zero count.
C10_DelayFormula ==
    \A i \in 1 .. Len(bk_hist) :
        LET e == bk_hist[i]
        IN  /\ e.recorded =>
                /\ e.next_check_at # <<>>
                /\ e.is_new <=> e.prev_kind # e.outcome
                /\ e.is_new => e.consecutive = 1 /\ e.next_check_at[1] = bk_base
                /\ ~e.is_new =>
                     /\ e.consecutive >= 2
                     /\ e.next_check_at[1] = bk_base * Pow2(Min(e.consecutive, 6))
                /\ e.next_check_at[1] >= bk_base
                /\ e.next_check_at[1] <= 64 * bk_base
                /\ e.consecutive >= 6 => e.next_check_at[1] = 64 * bk_base
            /\ e.outcome = "Ok" => e.next_check_at = <<>> /\ e.consecutive = 0

\* C10 witness: a seventh consecutive error, still scheduled at 64*base.
C10_Witness ==
    /\ bk_base > 0 /\ bk_hist # <<>>
    /\ bk_hist[Len(bk_hist)].recorded
    /\ bk_hist[Len(bk_hist)].consecutive = 7
    /\ bk_hist[Len(bk_hist)].next_check_at = <<64 * bk_base>>

\* The number a check result adds to a tally of results of that kind.
Tally(kind, outcome) == IF outcome = kind THEN 1 ELSE 0

\* C11 as stated: no discovery check is performed for a room that has an entry
\* in active_recordings.
C11_AsStated == mpc = "dispatch" => room_idx \notin active_recordings

\* C11 (amended): a recording room that is not skipped for backoff is checked
\* like any other and counted in checked_count; its result is counted in the
\* Private and Cloudflare tallies, starts no recorder, leaves every status
\* alone, and an Offline, Private or Cloudflare result leaves the backoff
\* states alone.
C11_RecordingRoomsChecked ==
    /\ [][(/\ mpc = "check_rooms" /\ room_idx \in Rooms
           /\ room_idx \in active_recordings
           /\ (cookie_dead \/ ~should_skip(check_states[room_idx]))
           /\ (mpc' # mpc \/ room_idx' # room_idx))
          => (/\ mpc' = "dispatch" /\ room_idx' = room_idx
              /\ is_recording'
              /\ checked_count' = checked_count + 1)]_vars
    /\ [][(mpc = "dispatch" /\ is_recording /\ mpc' # mpc)
          => (/\ private_count' = private_count + Tally("Private", check_result)
              /\ cloudflare_count' = cloudflare_count + Tally("Cloudflare", check_result)
              /\ active_recordings' = active_recordings
              /\ task_count' = task_count
              /\ room_status' = room_status
              /\ (check_result \in {"Offline", "Private", "Cloudflare"}
                    => check_states' = check_states))]_vars

\* C11 witness: the first room of the cycle is recording, was checked, and its
\* Private result was counted.
C11_Witness ==
    /\ mpc = "check_rooms" /\ room_idx = 2
    /\ 1 \in active_recordings
    /\ checked_count = 1 /\ private_count = 1

\* C12 as stated: no discovery check is performed for a room whose
\* next_check_at has not been reached.
C12_AsStated == mpc = "dispatch" => ~should_skip(check_states[room_idx])

\* C13 as stated: the first segment of a playlist (so: of a later poll than any
\* skip) is not downloaded when its sequence number was skipped after its
\* retries failed.
C13_AsStated == (rec_pc = "download" /\ seg_idx = 1) => segment \notin skipped

\* C13 (amended): a download is issued only for a sequence number above every
\* one written so far; so a skipped sequence number is downloaded again only
\* while nothing at or above it has been written, and never after that.
C13_RetriedUntilPassed ==
    rec_pc \in {"download", "write"}
        => /\ is_new_segment(tracker, segment)
           /\ \A i \in 1 .. Len(written) : written[i] < segment

\* C13 witness: a later poll downloads a skipped sequence number again, after
\* a lower one was written.
C13_Witness ==
    /\ rec_pc = "download" /\ seg_idx = 1 /\ segment \in skipped
    /\ written # <<>>
    /\ \E s \in skipped : s <= tracker.last_sequence

\* C14 as stated: when record_stream has returned after opening its first
\* file, the open file holds no write that was not followed by a flush.
C14_AsStated == (rec_pc = "done" /\ stats.files_created >= 1) => ~unflushed

\* C15 as stated: record_stream returns an error only for a failed filesystem
\* operation.
C15_AsStated == (rec_pc = "done" /\ result.kind = "Err") => result.error = "Io"

\* C16: run returns only once its token is cancelled; until then it keeps
\* coming back to the top of its loop, whatever the checks return, with or
\* without credential death and however recordings end; a recording that ends
\* in an error or a panic changes nothing but its own task, and the sweep
\* changes nothing of a room whose recording has not finished and no backoff
\* state.
C16_KeepsCycling ==
    /\ [](mpc = "returned" => cancel_token)
    /\ []<>(mpc = "loop_top" \/ cancel_token)
    /\ [][\A r \in Rooms :
            (rec_task[r] = "running" /\ rec_task'[r] \in {"err", "panic"})
            => /\ \A q \in Rooms \ {r} : rec_task'[q] = rec_task[q]
               /\ UNCHANGED <<mpc, active_recordings, rec_cancel, room_status,
                              check_states, cancel_token>>]_vars
    /\ [][(mpc = "cleanup" /\ mpc' # mpc)
          => /\ mpc' = "sleep"
             /\ UNCHANGED <<check_states, rec_cancel, cancel_token>>
             /\ \A q \in Rooms :
                   rec_task[q] \notin Finished
                   => /\ rec_task'[q] = rec_task[q]
                      /\ room_status'[q] = room_status[q]
                      /\ (q \in active_recordings' <=> q \in active_recordings)]_vars

\* C16 witness: with credential death set, the sweep is about to take a
\* recording that panicked while the other room's recording runs.
C16_Witness ==
    /\ mpc = "cleanup" /\ cookie_dead /\ num_rooms = 2
    /\ rec_task[1] = "panic" /\ rec_task[2] = "running"
    /\ active_recordings = {1, 2}

\* C17 as stated: no two running recorders have the same output file path open.
C17_AsStated ==
    \A i, j \in DOMAIN open_file :
        (i # j /\ open_file[i].status = "open" /\ open_file[j].status = "open")
            => open_file[i].path # open_file[j].path

\* C18 as stated, for the first segment of a playlist: when its sequence
\* number parses and was never written, the tracker calls it new, so that it is
\* downloaded.
C18_AsStated ==
    (/\ rec_pc = "segments" /\ seg_idx = 1 /\ seg_idx <= playlist_len
     /\ segment # NoSeq
     /\ \A i \in 1 .. Len(written) : written[i] # segment)
    => is_new_segment(tracker, segment)

\* C19: the write of a segment is followed by a split exactly when a positive
\* duration limit is met by the file's duration or a positive size limit by
\* the file's size; with the duration limit 0 the size decides alone, with the
\* size limit 0 the duration; a file is created only at the start and by a
\* split; and with both limits 0 there is never a split and never a second file.
C19_SplitIff ==
    /\ [][(rec_pc = "write" /\ written' # written)
          => /\ rec_pc' = "split"
                <=> \/ max_duration_secs > 0 /\ file_duration' >= max_duration_secs
                    \/ max_filesize_bytes > 0 /\ file_size' >= max_filesize_bytes
             /\ max_duration_secs = 0
                => (rec_pc' = "split"
                    <=> max_filesize_bytes > 0 /\ file_size' >= max_filesize_bytes)
             /\ max_filesize_bytes = 0
                => (rec_pc' = "split"
                    <=> max_duration_secs > 0 /\ file_duration' >= max_duration_secs)]_vars
    /\ [][(rec_pc' = "split" /\ rec_pc # "split")
          => (rec_pc = "write" /\ written' # written)]_vars
    /\ [][stats'.files_created # stats.files_created
          => /\ rec_pc \in {"start", "split"}
             /\ stats'.files_created = stats.files_created + 1]_vars
    /\ []((max_duration_secs = 0 /\ max_filesize_bytes = 0)
          => /\ rec_pc # "split"
             /\ stats.files_created <= 1
             /\ (written # <<>> => stats.files_created = 1))

\* C19 witness: with no duration limit, a write has met the size limit and
\* the split is due, the file's duration being what it may.
C19_Witness ==
    /\ rec_pc = "split"
    /\ max_duration_secs = 0 /\ max_filesize_bytes > 0
    /\ file_size >= max_filesize_bytes
    /\ stats.files_created >= 2

\* C20: over any calls on a SegmentTracker, last_sequence never decreases;
\* update_sequence with a number not above it leaves it as it was, and with a
\* number above it sets it to that number; is_new_segment leaves it alone and
\* answers true exactly for a number above it.
C20_TrackerMonotone ==
    /\ [][trk'.last_sequence >= trk.last_sequence]_vars
    /\ [](trk_call.op = "update_sequence"
          => /\ trk_call.sequence <= trk_call.before
                => trk.last_sequence = trk_call.before
             /\ trk_call.sequence > trk_call.before
                => trk.last_sequence = trk_call.sequence)
    /\ [](trk_call.op = "is_new_segment"
          => /\ trk.last_sequence = trk_call.before
             /\ trk_call.result <=> trk_call.sequence > trk_call.before)

\* C20 witness: update_sequence was called with a number below last_sequence.
C20_Witness ==
    /\ trk_call.op = "update_sequence"
    /\ trk_call.sequence < trk_call.before
    /\ trk.last_sequence = trk_call.before

\* C21: the sweep at the end of a cycle removes from the active set every
\* recording whose task had finished (with stats, an error or a panic) and
\* leaves its room's status Unknown; a recording whose task has not finished
\* stays in the active set with status Recording.
C21_SweepFinished ==
    /\ [][(mpc = "cleanup" /\ mpc' = "sleep") =>
            \A r \in active_recordings :
                /\ rec_task[r] \in Finished =>
                     r \notin active_recordings' /\ room_status'[r] = "Unknown"
                /\ rec_task[r] \notin Finished =>
                     r \in active_recordings' /\ room_status'[r] = "Recording"]_vars
    /\ [](mpc = "sleep" =>
            \A r \in active_recordings :
                room_status[r] = "Recording" /\ rec_task[r] # "none")

\* C21 witness: a cycle that entered credential death has ended; one room is
\* Unknown, which only the sweep of its finished recording can have made it,
\* and another room is still recording.
C21_Witness ==
    /\ mpc = "sleep" /\ cookie_dead /\ ~was_cookie_dead
    /\ \E r \in Rooms : room_status[r] = "Unknown" /\ r \notin active_recordings
    /\ \E r \in active_recordings :
          rec_task[r] = "running" /\ room_status[r] = "Recording"

\* C22: when the detection step enters credential death, every room without
\* an active recording has status CookieDead and every room with an active
\* recording keeps status Recording once the step completes.
C22_EntryMarksRooms ==
    [][(mpc = "check_rooms" /\ mpc' = "cleanup" /\ ~cookie_dead /\ cookie_dead') =>
          \A r \in Rooms :
              /\ r \notin active_recordings => room_status'[r] = "CookieDead"
              /\ r \in active_recordings =>
                   room_status'[r] = "Recording" /\ room_status[r] = "Recording"]_vars

\* C22 witness: credential death was entered in this cycle with one room
\* recording and another not.
C22_Witness ==
    /\ mpc = "cleanup" /\ cookie_dead /\ ~was_cookie_dead
    /\ \E r \in Rooms : r \in active_recordings /\ room_status[r] = "Recording"
    /\ \E r \in Rooms : r \notin active_recordings /\ room_status[r] = "CookieDead"

\* C23 as stated: an error of kind K is logged only if no earlier result of
\* the room was K without a success or an error of another kind in between.
C23_AsStated ==
    \A j \in 1 .. Len(bk_hist) :
        bk_hist[j].is_new =>
            \A i \in 1 .. j - 1 :
                bk_hist[i].outcome = bk_hist[j].outcome =>
                    \E m \in i + 1 .. j - 1 :
                        bk_hist[m].outcome \in Outcomes \ {bk_hist[j].outcome}

\* C23 (amended): an error is logged only if it is recorded in the room's
\* check state (any unclassified error; an Offline, Private, Cloudflare or
\* server error only while the room is not recording).  A recorded error that
\* follows a recorded error of the same kind is not logged; one that follows a
\* recorded error of another kind, a success of the room, or a cookie recovery
\* is logged.
C23_LoggedOnFirst ==
    \A j \in 1 .. Len(bk_hist) :
        LET e == bk_hist[j]
        IN  /\ e.is_new => e.recorded /\ e.outcome \in ErrorKinds
            /\ (e.recorded /\ j > 1) =>
                 LET p == bk_hist[j - 1]
                 IN  /\ (p.recorded /\ p.outcome = e.outcome) => ~e.is_new
                     /\ (p.recorded /\ p.outcome # e.outcome) => e.is_new
                     /\ p.outcome \in {"Ok", "Recovered"} => e.is_new

\* C23 witness: Offline is logged, a cookie recovery follows, and the next
\* Offline result of the room, which is not recording, is logged again.
C23_Witness ==
    /\ Len(bk_hist) = 3
    /\ bk_hist[1].outcome = "Offline" /\ bk_hist[1].is_new
    /\ bk_hist[2].outcome = "Recovered"
    /\ bk_hist[3].outcome = "Offline" /\ bk_hist[3].is_new
    /\ \A j \in 1 .. 3 : ~bk_hist[j].is_recording

\* The tasks of run_direct_mode that failed, and those that returned stats.
FailedTasks == {i \in DOMAIN direct_task : direct_task[i] \in {"Err", "panic"}}
SucceededTasks == {i \in DOMAIN direct_task : direct_task[i] = "Ok"}

\* C24: in direct mode every requested room gets a task of its own, spawned
\* without waiting for the tasks before it; the mode returns only after every
\* task has completed and was joined; and it returns an error if and only if
\* at least one task failed and none succeeded.
C24_DirectMode ==
    /\ (~monitor_flag /\ main_pc \in {"direct_join", "result"}) =>
          \A i \in DOMAIN direct_task : direct_task[i] # "none"
    /\ (~monitor_flag /\ main_result # "none") =>
          /\ DOMAIN direct_task = 1 .. Len(room_list)
          /\ joined = DOMAIN direct_task
          /\ FailedTasks \cup SucceededTasks = DOMAIN direct_task
          /\ successful = Cardinality(SucceededTasks)
          /\ failed = Cardinality(FailedTasks)
          /\ main_result = "Config" <=> (FailedTasks # {} /\ SucceededTasks = {})
          /\ main_result \in {"Config", "Ok"}

\* C24 witness: direct mode has returned Ok for two rooms, one task failed and
\* the other succeeded.
C24_Witness ==
    /\ ~monitor_flag /\ main_result = "Ok"
    /\ FailedTasks # {} /\ SucceededTasks # {}

\* C25 as stated: a run that was interrupted exits with EXIT_INTERRUPTED.
C25_AsStated ==
    (main_pc = "exited" /\ main_result # "none" /\ cancel_token) =>
        exit_status = <<EXIT_INTERRUPTED>>

\* The room list is non-empty and every name has 1 to 50 characters, each a
\* letter, a digit or an underscore.
ValidRoomList ==
    /\ Len(room_list) >= 1
    /\ \A i \in 1 .. Len(room_list) :
          /\ Len(room_list[i]) \in 1 .. 50
          /\ \A k \in 1 .. Len(room_list[i]) : room_list[i][k] \in RoomChars

\* C29: no check or recording is started unless the room list is non-empty
\* and every name is valid; otherwise main returns the configuration exit code
\* from its room checks, with no monitor cycle, no task and no mode result.
C29_ValidatedBeforeAnyFetch ==
    /\ (\/ main_pc \in {"client", "monitor", "direct_spawn", "direct_join", "result"}
        \/ main_result # "none"
        \/ mpc # "loop_top"
        \/ \E i \in DOMAIN direct_task : direct_task[i] # "none") => ValidRoomList
    /\ ~ValidRoomList =>
          \/ main_pc = "start"
          \/ /\ main_pc = "exited" /\ exit_status = <<EXIT_CONFIG_ERROR>>
             /\ main_result = "none" /\ mpc = "loop_top" /\ checked_count = 0
             /\ \A i \in DOMAIN direct_task : direct_task[i] = "none"

\* C29 witness: main has returned for a room name of 51 characters.
C29_Witness ==
    /\ main_pc = "exited" /\ exit_status = <<EXIT_CONFIG_ERROR>>
    /\ \E i \in 1 .. Len(room_list) : Len(room_list[i]) = 51

\* C26 as stated: a response with status 403 yields PrivateStream, one with
\* 404 RoomNotFound, one with any other non-success status a Network error,
\* and text is returned only for a success status.
C26_AsStated ==
    (fetch_result.kind # "none" /\ http_response.transport # "send_error") =>
        /\ http_response.status = 403 => fetch_result = Err("PrivateStream")
        /\ http_response.status = 404 => fetch_result = Err("RoomNotFound")
        /\ (~is_success(http_response.status)
                /\ http_response.status \notin {403, 404})
              => fetch_result = Err("Network")
        /\ fetch_result.kind = "Ok" => is_success(http_response.status)

\* The room page was fetched as text, contains the playlist marker, and its
\* dossier parses and has the given hls_source.
PageWith(dossier) ==
    /\ disc_pc = "done" /\ variants = <<>>
    /\ fetch_result.kind = "Ok"
    /\ "playlist" \in DOMAIN fetch_result.text
    /\ fetch_result.text.playlist
    /\ fetch_result.text.dossier = dossier

\* C27 as stated: discovery returns BroadcasterOffline both when hls_source is
\* missing and when it is empty.
C27_AsStated ==
    \A dossier \in {"missing", "null", "empty"} :
        PageWith(dossier) => disc_result = Err("BroadcasterOffline")

\* C27 (amended): on a page with the playlist marker and a parseable blob,
\* discovery returns BroadcasterOffline when hls_source is present but empty
\* and StreamNotFound when it is missing or null; in neither case is the
\* master playlist fetched.
C27_MissingIsNotFound ==
    /\ PageWith("empty") => disc_result = Err("BroadcasterOffline")
    /\ PageWith("missing") => disc_result = Err("StreamNotFound")
    /\ PageWith("null") => disc_result = Err("StreamNotFound")
    /\ (disc_pc = "master" \/ variants # <<>>) =>
          disc_result.kind \in {"none", "Ok"}

\* C27 witness: discovery has returned for a page whose blob has no hls_source.
C27_Witness == PageWith("missing") /\ disc_result = Err("StreamNotFound")

\* The variants of the fetched master playlist, each with its URL.
Listed ==
    {[url |-> i, resolution |-> variants[i].resolution,
      framerate |-> variants[i].framerate, bandwidth |-> variants[i].bandwidth] :
        i \in 1 .. Len(variants)}

\* a ranks strictly above b in (resolution, framerate, bandwidth) descending.
RanksAbove(a, b) ==
    \/ a.resolution > b.resolution
    \/ a.resolution = b.resolution /\ a.framerate > b.framerate
    \/ /\ a.resolution = b.resolution /\ a.framerate = b.framerate
       /\ a.bandwidth > b.bandwidth

\* C28: for a non-empty variant list and any target, the selection is a
\* member of the list: a best-ranked exact match if there is an exact match;
\* else a best-ranked variant with resolution and framerate at or below the
\* target if there is one; else a best-ranked variant of the list.  For
\* (1080,30), (720,60), (720,30), (480,30) and target (1080,60) it is (1080,30).
C28_Selection ==
    variants # <<>> =>
        /\ disc_result.kind = "Ok"
        /\ LET sel == disc_result.info
               Exact(v) == v.resolution = target.resolution
                             /\ v.framerate = target.framerate
               Below(v) == v.resolution <= target.resolution
                             /\ v.framerate <= target.framerate
               pool == IF \E v \in Listed : Exact(v) THEN {v \in Listed : Exact(v)}
                       ELSE IF \E v \in Listed : Below(v)
                       THEN {v \in Listed : Below(v)}
                       ELSE Listed
           IN  /\ sel \in pool
               /\ \A v \in pool : ~RanksAbove(v, sel)
               /\ (Len(variants) = 4 /\ target = [resolution |-> 1080, framerate |-> 60])
                     => sel.resolution = 1080 /\ sel.framerate = 30

\* C28 witness: the four variants of the example with target (1080,60), and
\* (1080,30) selected.
C28_Witness ==
    /\ Len(variants) = 4 /\ target = [resolution |-> 1080, framerate |-> 60]
    /\ disc_result.kind = "Ok"
    /\ disc_result.info.resolution = 1080 /\ disc_result.info.framerate = 30

\* The positions of retry_log that are get_bytes calls, and those that failed.
Attempts == {i \in 1 .. Len(retry_log) : retry_log[i].call = "get_bytes"}
FailedAttempts == {i \in Attempts : retry_log[i].result.kind = "Err"}

\* C30: a segment's download makes at most 3 attempts; a successful attempt
\* is the last thing it does and its data is returned; the delay comes only
\* between a failed attempt and the next attempt, never after the last; and an
\* error is returned only after exactly 3 failed attempts, and it is the error
\* of the last attempt.
C30_Retry ==
    /\ Cardinality(Attempts) <= 3
    /\ \A i \in Attempts \ FailedAttempts :
          /\ i = Len(retry_log)
          /\ retry_pc = "done" /\ retry_result = retry_log[i].result
    /\ \A i \in 1 .. Len(retry_log) :
          retry_log[i].call = "sleep" =>
              /\ i - 1 \in FailedAttempts
              /\ Cardinality({j \in Attempts : j < i}) < 3
              /\ i < Len(retry_log) => i + 1 \in Attempts
              /\ i = Len(retry_log) => retry_pc = "attempt"
    /\ \A i \in FailedAttempts :
          i < Len(retry_log) => retry_log[i + 1].call = "sleep"
    /\ retry_result.kind = "Err" =>
          /\ Cardinality(Attempts) = 3 /\ FailedAttempts = Attempts
          /\ Len(retry_log) \in Attempts
          /\ retry_result = retry_log[Len(retry_log)].result
    /\ retry_result.kind = "Ok" => Len(retry_log) \in Attempts \ FailedAttempts
    /\ retry_pc = "done" <=> retry_result.kind # "none"
    /\ retry_pc = "done" =>
          \/ retry_result.kind = "Ok"
          \/ Cardinality(FailedAttempts) = 3

\* C30 witness: three attempts failed for different reasons with two delays
\* between them, and the third attempt's error was returned.
C30_Witness ==
    /\ retry_pc = "done" /\ Len(retry_log) = 5
    /\ FailedAttempts = {1, 3, 5}
    /\ retry_log[1].result # retry_log[5].result
    /\ retry_log[3].result # retry_log[5].result
    /\ retry_result = retry_log[5].result

\* The name the claim gives file number n of a run: the replaced pattern, no
\* suffix for n = 0 and "_n" for n > 0, then the extension.
NameOfFile(n, t) ==
    ReplaceAll(filename_pattern, room_list[1], t)
        \o (IF n = 0 THEN <<>> ELSE <<"_">> \o Decimal(n))
        \o <<".", "t", "s">>

\* record_stream holds an output file: from the first create_output_file until
\* it returns.
FileHeld == open_file[1].status = "open"

\* C31: within one run of record_stream the n-th output file opened (n = 0, 1,
\* 2, ...) is opened with sequence n and named accordingly (no suffix for
\* n = 0, "_n" before ".ts" for n > 0); while a file is held files_created is
\* file_sequence + 1; and a split leaves file_duration and file_size at zero.
C31_FileSequence ==
    /\ [](FileHeld =>
             /\ stats.files_created = file_sequence + 1
             /\ open_file[1].sequence = stats.files_created - 1
             /\ open_file[1].path = NameOfFile(stats.files_created - 1, open_file[1].at))
    /\ [][rec_pc = "split" /\ rec_pc' = "segments" =>
             /\ file_sequence' = file_sequence + 1
             /\ file_duration' = 0 /\ file_size' = 0]_vars

\* The third file of a run is open, just after the split that opened it.
C31_Witness ==
    /\ FileHeld
    /\ file_sequence = 2
    /\ open_file[1].path = <<"a", "_", "1", "_", "2", ".", "t", "s">>
    /\ file_duration = 0 /\ file_size = 0
    /\ stats.segments_downloaded > 0

\* C32 as stated: a response whose body holds the Cloudflare interstitial
\* marker is classified CloudflareBlocked whatever its status, 403 and 404
\* included.
C32_AsStated ==
    (/\ fetch_result.kind # "none"
     /\ http_response.transport = "ok"
     /\ http_response.body.marker \in {"cloudflare", "both"})
        => fetch_result = Err("CloudflareBlocked")

\* C33 as stated: at the end of every cycle (after the sweep) and after the
\* shutdown has completed, a room's status is Recording exactly if it has an
\* entry in active_recordings; and the match on a check result leaves the
\* status of a room that is recording as it is.
C33_AsStated ==
    /\ [](mpc \in {"sleep", "returned"} =>
             \A r \in Rooms : room_status[r] = "Recording" <=> r \in active_recordings)
    /\ [][(mpc = "dispatch" /\ room_idx \in active_recordings) =>
             room_status'[room_idx] = room_status[room_idx]]_vars

\* A fetch of the media playlist that succeeds and parses.
FetchSucceeds == rec_pc = "fetch" /\ rec_pc' \in {"segments", "flush"}

\* C34 as stated: if from some point on every fetch of the media playlist
\* fails and the recording's token is never cancelled, record_stream eventually
\* returns.
C34_AsStated ==
    (<>[][~FetchSucceeds]_vars /\ []~token_cancelled) => <>(rec_pc = "done")

\* C35 as stated: when record_stream leaves its loop for a playlist that
\* signals the end of the stream, no segment listed in that playlist with a
\* new sequence number is left without a download attempt.
C35_AsStated ==
    (rec_pc = "flush" /\ exit_path = "ended") =>
        ~(seg_idx <= playlist_len /\ segment # NoSeq
                                  /\ is_new_segment(tracker, segment))

\* C36 as stated: once the root token is cancelled, no step of the monitor
\* starts a Recorder task.
C36_AsStated ==
    [][cancel_token => \A r \in Rooms :
                          /\ task_count'[r] <= task_count[r]
                          /\ rec_task'[r] = "running" => rec_task[r] = "running"]_vars

\* C37 as stated: while credential death is not in force (before it was ever
\* entered, and from a recovery until it is entered again) no room has status
\* CookieDead.
C37_AsStated == ~cookie_dead => \A r \in Rooms : room_status[r] # "CookieDead"

\* C38 as stated: with three or more rooms, the detection step of a cycle in
\* which exactly one room returned Private or Cloudflare does not enter
\* credential death, whatever rooms were skipped.
C38_AsStated ==
    (/\ mpc = "cleanup"
     /\ num_rooms >= 3
     /\ private_count + cloudflare_count = 1
     /\ ~was_cookie_dead)
        => ~cookie_dead

\* A discovery check of room r that does not succeed.
CheckFails(r) ==
    mpc = "check_rooms" /\ room_idx = r /\ check_result' \notin {"none", "Ok"}

\* Room r has a Recorder task and status Recording.
Recorded(r) ==
    r \in active_recordings /\ rec_task[r] # "none" /\ room_status[r] = "Recording"

\* C39: if the root token is never cancelled and, from some point on, no check
\* of a room fails, then from any state (whatever backoff the room has, with
\* or without credential death, whatever the other rooms return) the room
\* eventually has a Recorder task started for it and status Recording.
C39_EventuallyRecorded ==
    \A r \in 1 .. Max(RoomCounts) :
        (<>[][~CheckFails(r)]_vars /\ []~cancel_token)
            => [](r \in Rooms => <>Recorded(r))

\* C39 witness: outside credential death, the check of a room that had
\* accumulated backoff up to the cap and has no recording has succeeded, while
\* the other room returned an error in the same cycle.
C39_Witness ==
    /\ mpc = "dispatch" /\ room_idx = 2 /\ check_result = "Ok"
    /\ ~cookie_dead /\ ~cancel_token
    /\ 2 \notin active_recordings
    /\ check_states[2].consecutive_same_error = MonMaxConsecutive
    /\ check_states[2].next_check_at # <<>>
    /\ room_status[1] = "Offline" /\ should_skip(check_states[1])

====
